---- MODULE Spec2Model ----
(***************************************************************************)
(* A model of the federation substrate of atc-blender: the URL safety      *)
(* validator, the safe JSON fetchers, the JWKS verifier cache, the         *)
(* scope-enforcing request gate and the authority token broker.            *)
(*                                                                         *)
(* Each subsystem has its own specification (SpecUrl, SpecFetch, SpecJwks, *)
(* SpecGate, SpecToken) over the one set of variables; a specification     *)
(* leaves the variables of the other subsystems at their initial value.    *)
(***************************************************************************)
EXTENDS Integers, Sequences, FiniteSets, Bags, TLC

VARIABLES
    dns,          \* what socket.getaddrinfo answers for each host name
    vcall,        \* the last validate_public_url call and its outcome
    fetch,        \* the fetch_json_url / _fetch_geozone_json call in progress
    gets,         \* the GETs that call has sent so far, in order
    jcfg,         \* JWKS_CACHE_TTL_S, JWKS_FETCH_BACKOFF_INITIAL_S, JWKS_FETCH_BACKOFF_MAX_S
    jclock,       \* what _now_s() returns
    JWKS_CACHE,   \* _JWKS_CACHE: the entry of each URL
    _JWKS_CACHE_LOCK, \* the caller that holds _JWKS_CACHE_LOCK, or Unlocked
    jw,           \* each caller's position in _get_jwks_cached
    jret,         \* what each caller's last _get_jwks_cached call gave back
    genv,         \* BYPASS_AUTH_TOKEN_VERIFICATION and IS_DEBUG of the environment
    greq,         \* the last request through requires_scopes and its answer
    tenv,         \* whether DSS_AUTH_URL names a local_ / local- host
    tclock,       \* what datetime.now() returns: a place in Instants
    redis,        \* the store behind get_redis(): the record of each key
    getter,       \* each worker's AuthorityCredentialsGetter
    tw,           \* each worker's position in get_cached_credentials
    tlog,         \* per key: the token requests and store writes so far
    denv,         \* python -O or not, DSS_SELF_AUDIENCE, RID_FALLBACK_USS_URLS
    dstore,       \* uuid4 draws, isa-{id} markers, subscription records
    disa,         \* the create_dss_isa call in progress
    dsub,         \* the create_dss_subscription call in progress
    dpeer,        \* the delete_dss_subscription or query_uss_for_rid call in progress
    dtables,      \* flight details and observations stored, polls made
    rtree,        \* the spatial index factories
    cluster       \* the extend_cluster call

netVars == <<dns, vcall, fetch, gets>>
jwksVars == <<jcfg, jclock, JWKS_CACHE, _JWKS_CACHE_LOCK, jw, jret>>
gateVars == <<genv, greq>>
tokenVars == <<tenv, tclock, redis, getter, tw, tlog>>
dssVars == <<denv, dstore, disa, dsub, dpeer, dtables>>
rtreeVars == <<rtree>>
clusterVars == <<cluster>>
vars == <<dns, vcall, fetch, gets, jcfg, jclock, JWKS_CACHE, _JWKS_CACHE_LOCK, jw, jret,
          genv, greq, tenv, tclock, redis, getter, tw, tlog,
          denv, dstore, disa, dsub, dpeer, dtables, rtree, cluster>>

NoneVal == "None"

(***************************************************************************)
(* URLs.  A URL is the record of what urllib.parse.urlparse extracts from  *)
(* it.  username and password are None when the authority has no such      *)
(* part and "" when the part is present and empty ("https://@host/").      *)
(* port is "ok" for an absent or well-formed port and "bad" for one        *)
(* that makes ParseResult.port raise ValueError (":99999", ":abc").        *)
(* parse is "bad" for a string urlparse itself rejects ("https://[::1").   *)
(***************************************************************************)
PublicIp == "93.184.216.34"
PrivateIp == "10.0.0.5"
LoopbackIp == "127.0.0.1"
MetadataIp == "169.254.169.254"

Ips == {PublicIp, PrivateIp, LoopbackIp, MetadataIp}

Names == {"example.com"}

\* The ipaddress properties of each address.
IpFlags(ip) ==
    CASE ip = PrivateIp -> {"is_private"}
      [] ip = LoopbackIp -> {"is_private", "is_loopback"}
      [] ip = MetadataIp -> {"is_private", "is_link_local"}
      [] OTHER -> {}

_looks_like_ip(host) == host \in Ips

_is_disallowed_ip(host) ==
    /\ host \in Ips
    /\ IpFlags(host) \cap {"is_private", "is_loopback", "is_link_local",
                           "is_multicast", "is_reserved", "is_unspecified"} # {}

\* socket.getaddrinfo: an address literal resolves to itself, a name to
\* whatever the resolver answers now: gaierror (ok = FALSE), or a set of
\* addresses, which is empty when every answer lacks a socket address.
DnsAnswer(ok, ips) == [ok |-> ok, ips |-> ips]

DnsAnswers ==
    {DnsAnswer(FALSE, {})} \cup {DnsAnswer(TRUE, S) : S \in SUBSET {PublicIp, PrivateIp}}

_resolved_ips(host, resolver) ==
    IF host \in Ips THEN DnsAnswer(TRUE, {host}) ELSE resolver[host]

Truthy(s) == s # NoneVal /\ s # ""

\* The loop over the resolved addresses (one disallowed address rejects).
AllResolvedDisallowed(ips) == \A ip \in ips : _is_disallowed_ip(ip)

AnyResolvedDisallowed(ips) == \E ip \in ips : _is_disallowed_ip(ip)

\* What a call gives back: a (ok, reason) pair, or an exception that escapes.
Return(ok, reason) == [kind |-> "return", ok |-> ok, reason |-> reason]
Raise(exc) == [kind |-> "raise", ok |-> FALSE, reason |-> exc]

\* validate_public_url, rule by rule in the order of the source.  netloc is
\* empty exactly when the authority has no host and no userinfo.
validate_public_url(url, allow_http, require_https, resolver) ==
    IF url.parse = "bad" THEN Return(FALSE, "invalid_url")
    ELSE IF url.scheme \notin {"http", "https"}
        THEN Return(FALSE, "unsupported_scheme")
    ELSE IF require_https /\ url.scheme # "https" /\ ~allow_http
        THEN Return(FALSE, "https_required")
    ELSE IF url.scheme = "http" /\ ~allow_http
        THEN Return(FALSE, "http_not_allowed")
    ELSE IF url.host = NoneVal /\ url.username = NoneVal /\ url.password = NoneVal
        THEN Return(FALSE, "missing_host")
    ELSE IF Truthy(url.username) \/ Truthy(url.password)
        THEN Return(FALSE, "userinfo_not_allowed")
    ELSE IF url.host = NoneVal THEN Return(FALSE, "missing_host")
    ELSE IF url.host = "localhost" THEN Return(FALSE, "localhost_not_allowed")
    ELSE IF url.port = "bad" THEN Raise("ValueError")
    ELSE IF _looks_like_ip(url.host) /\ _is_disallowed_ip(url.host)
        THEN Return(FALSE, "ip_not_allowed")
    ELSE LET answer == _resolved_ips(url.host, resolver) IN
        IF ~answer.ok THEN Return(FALSE, "dns_failed")
        ELSE IF answer.ips = {} THEN Return(FALSE, "dns_failed")
        ELSE IF AnyResolvedDisallowed(answer.ips)
            THEN Return(FALSE, "resolved_ip_not_allowed")
        ELSE Return(TRUE, "")

Url(scheme, username, password, host, port, path) ==
    [parse |-> "ok", scheme |-> scheme, username |-> username,
     password |-> password, host |-> host, port |-> port, path |-> path]

\* "https://[::1": urlparse raises ValueError.
UnparseableUrl ==
    [parse |-> "bad", scheme |-> "https", username |-> NoneVal,
     password |-> NoneVal, host |-> NoneVal, port |-> "ok", path |-> "/"]

UserInfos == {<<NoneVal, NoneVal>>, <<"", NoneVal>>, <<"user", NoneVal>>, <<"user", "pass">>}

Hosts == {NoneVal, "localhost", PublicIp, MetadataIp} \cup Names

\* The URLs validate_public_url is called with.
Urls ==
    {UnparseableUrl} \cup
    {Url(s, u[1], u[2], h, p, "/data.json") :
        s \in {"https", "http", "ftp"}, u \in UserInfos, h \in Hosts, p \in {"ok", "bad"}}

Resolvers == [Names -> DnsAnswers]

(***************************************************************************)
(* The JWKS verifier cache (auth_helper/utils.py).  Time is counted in     *)
(* units of 0.1 s, the floor the source puts under the initial backoff.    *)
(* A JWKS document is None (nothing fetched yet) or a JSON object: members *)
(* is the number of its members ({} has none and is falsy in Python) and   *)
(* keys the entries of its "keys" list, each with its kid ("" when the     *)
(* entry has none) and whether RSAAlgorithm.from_jwk accepts it.           *)
(***************************************************************************)
MaxJwksClock == 3

BackoffFloor == 1

JwksUrls == {"passport", "dss"}
Callers == {"w1", "w2"}

\* _JWKS_CACHE_LOCK when no caller holds it.
Unlocked == "unlocked"

Jwk(kid, good) == [kid |-> kid, good |-> good]

NoJwks == [kind |-> "None", members |-> 0, keys |-> {}]
EmptyObject == [kind |-> "object", members |-> 0, keys |-> {}]
KeySet(keys) == [kind |-> "object", members |-> 1, keys |-> keys]

\* The documents a JWKS endpoint answers with.
JwksDocs ==
    {EmptyObject,
     KeySet({Jwk("k1", TRUE), Jwk("", TRUE), Jwk("k3", FALSE)}),
     KeySet({Jwk("k1", TRUE), Jwk("k2", TRUE)})}

FetchFailed == [kind |-> "failed", members |-> 0, keys |-> {}]

\* Python's truth value of the cached jwks.
JwksTruthy(jwks) == jwks.kind = "object" /\ jwks.members > 0

\* _build_public_keys: the kids of the entries that have a kid and whose
\* key material can be built.
_build_public_keys(jwks) == {k.kid : k \in {j \in jwks.keys : j.kid # "" /\ j.good}}

Max(a, b) == IF a >= b THEN a ELSE b
Min(a, b) == IF a <= b THEN a ELSE b

InitialBackoff(cfg) == Max(cfg.initial, BackoffFloor)

\* Lines 55-61: the entry made for a URL seen for the first time.
NewEntry(cfg) ==
    [jwks |-> NoJwks, public_keys |-> {}, expires_at |-> 0, next_retry_at |-> 0,
     backoff_s |-> InitialBackoff(cfg)]

\* A place of the map that holds no entry yet.
NoEntry ==
    [jwks |-> NoJwks, public_keys |-> {}, expires_at |-> 0, next_retry_at |-> 0,
     backoff_s |-> 0]

\* What a call gives back: (jwks, public_keys) or JwksFetchError; fetched
\* tells whether the call sent a GET.
JReturn(jwks, public_keys, fetched) ==
    [kind |-> "return", jwks |-> jwks, public_keys |-> public_keys, fetched |-> fetched]
JRaise(fetched) ==
    [kind |-> "JwksFetchError", jwks |-> NoJwks, public_keys |-> {}, fetched |-> fetched]
\* No answer from the cache: the caller goes on to fetch.
JGoFetch == [kind |-> "fetch", jwks |-> NoJwks, public_keys |-> {}, fetched |-> FALSE]

\* Lines 64-77, under the lock: what the cache answers without a fetch.
CachedAnswerIgnoringBackoff(entry, now, force_refresh, required) ==
    IF ~force_refresh /\ JwksTruthy(entry.jwks) /\ now < entry.expires_at
        THEN JReturn(entry.jwks, entry.public_keys, FALSE)
    ELSE JGoFetch

\* Lines 64-77 without the branch of line 69.
CachedAnswerWithoutFreshBranch(entry, now, force_refresh, required) ==
    IF ~force_refresh /\ now < entry.next_retry_at
        THEN IF JwksTruthy(entry.jwks) THEN JReturn(entry.jwks, entry.public_keys, FALSE)
             ELSE IF required THEN JRaise(FALSE)
             ELSE JReturn(EmptyObject, {}, FALSE)
    ELSE JGoFetch

\* Lines 64-77 with force_refresh left out of both conditions.
CachedAnswerForceIgnored(entry, now, force_refresh, required) ==
    IF JwksTruthy(entry.jwks) /\ now < entry.expires_at
        THEN JReturn(entry.jwks, entry.public_keys, FALSE)
    ELSE IF now < entry.next_retry_at
        THEN IF JwksTruthy(entry.jwks) THEN JReturn(entry.jwks, entry.public_keys, FALSE)
             ELSE IF required THEN JRaise(FALSE)
             ELSE JReturn(EmptyObject, {}, FALSE)
    ELSE JGoFetch

\* Lines 64-77 with the back-off window closed at its end (<= for <).
CachedAnswerRetryInclusive(entry, now, force_refresh, required) ==
    IF ~force_refresh /\ JwksTruthy(entry.jwks) /\ now < entry.expires_at
        THEN JReturn(entry.jwks, entry.public_keys, FALSE)
    ELSE IF ~force_refresh /\ now <= entry.next_retry_at
        THEN IF JwksTruthy(entry.jwks) THEN JReturn(entry.jwks, entry.public_keys, FALSE)
             ELSE IF required THEN JRaise(FALSE)
             ELSE JReturn(EmptyObject, {}, FALSE)
    ELSE JGoFetch

CachedAnswer(entry, now, force_refresh, required) ==
    IF ~force_refresh /\ JwksTruthy(entry.jwks) /\ now < entry.expires_at
        THEN JReturn(entry.jwks, entry.public_keys, FALSE)
    ELSE IF ~force_refresh /\ now < entry.next_retry_at
        THEN IF JwksTruthy(entry.jwks) THEN JReturn(entry.jwks, entry.public_keys, FALSE)
             ELSE IF required THEN JRaise(FALSE)
             ELSE JReturn(EmptyObject, {}, FALSE)
    ELSE JGoFetch

\* Lines 87-93, under the lock: a successful fetch is published.
PublishSuccess(entry, now, data, cfg) ==
    [jwks |-> data, public_keys |-> _build_public_keys(data),
     expires_at |-> now + Max(cfg.ttl, 0), next_retry_at |-> 0,
     backoff_s |-> InitialBackoff(cfg)]

\* Lines 98-104, under the lock: a failed fetch is published.
PublishFailureNoDoubling(entry, now, cfg) ==
    [entry EXCEPT !.next_retry_at = now + entry.backoff_s]

\* Lines 98-104 with the doubling left uncapped.
PublishFailureUncapped(entry, now, cfg) ==
    [entry EXCEPT !.next_retry_at = now + entry.backoff_s,
                  !.backoff_s = entry.backoff_s * 2]

PublishFailure(entry, now, cfg) ==
    [entry EXCEPT !.next_retry_at = now + entry.backoff_s,
                  !.backoff_s = Min(entry.backoff_s * 2, Max(cfg.max, entry.backoff_s))]

\* Lines 105-109: what the caller of a failed fetch gets, from the entry as
\* it was read under the lock.
AnswerAfterFailureRequiredFirst(entry, required) ==
    IF required THEN JRaise(TRUE)
    ELSE IF JwksTruthy(entry.jwks) THEN JReturn(entry.jwks, entry.public_keys, TRUE)
    ELSE JReturn(EmptyObject, {}, TRUE)

AnswerAfterFailure(entry, required) ==
    IF JwksTruthy(entry.jwks) THEN JReturn(entry.jwks, entry.public_keys, TRUE)
    ELSE IF required THEN JRaise(TRUE)
    ELSE JReturn(EmptyObject, {}, TRUE)

JwksConfig(ttl, initial, max) == [ttl |-> ttl, initial |-> initial, max |-> max]

\* The configurations: the usual shape, an initial backoff under the floor,
\* an initial backoff over the maximum, a negative TTL.
JwksConfigs ==
    {JwksConfig(2, 1, 4), JwksConfig(2, 0, 4), JwksConfig(2, 3, 2), JwksConfig(0 - 1, 1, 4)}

(***************************************************************************)
(* HTTP responses, as far as the fetchers look at them.  location and      *)
(* content_type are None for an absent header; a Location is a path        *)
(* (resolved against the current URL), an absolute URL, or "//[bad", for   *)
(* which urllib.parse.urljoin raises ValueError.  A body is the chunks     *)
(* iter_content yields (their lengths), whether the stream breaks before   *)
(* its end, whether the bytes are UTF-8, and what json.loads makes of them.*)
(***************************************************************************)
MaxRedirects == 2
MaxBytes == 2

LoopbackUrl == Url("https", NoneVal, NoneVal, LoopbackIp, "ok", "/evil")
NamedUrl == Url("https", NoneVal, NoneVal, "example.com", "ok", "/data.json")
BadPortUrl == Url("https", NoneVal, NoneVal, PublicIp, "bad", "/data.json")

RelLocation(path) == [kind |-> "rel", path |-> path, url |-> UnparseableUrl]
AbsLocation(url) == [kind |-> "abs", path |-> "", url |-> url]
EmptyLocation == [kind |-> "empty", path |-> "", url |-> UnparseableUrl]
NoLocation == [kind |-> "absent", path |-> "", url |-> UnparseableUrl]
BadLocation == [kind |-> "bad", path |-> "", url |-> UnparseableUrl]

Locations ==
    {NoLocation, EmptyLocation, BadLocation, RelLocation("/final")}
        \cup {AbsLocation(u) : u \in {LoopbackUrl, NamedUrl, BadPortUrl}}

\* urljoin(current_url, location); the caller has ruled out a bad location.
urljoin(current_url, location) ==
    IF location.kind = "rel" THEN [current_url EXCEPT !.path = location.path]
    ELSE location.url

Body(chunks, stream, utf8, json) ==
    [chunks |-> chunks, stream |-> stream, utf8 |-> utf8, json |-> json]

NoBody == Body(<<>>, "ok", TRUE, "invalid")

ChunkSeqs ==
    {<<>>} \cup {<<a>> : a \in {MaxBytes, MaxBytes + 1}}
           \cup {<<a, b>> : a \in {0, 1}, b \in {MaxBytes - 1, MaxBytes}}

Bodies ==
    {Body(c, "ok", TRUE, "object") : c \in ChunkSeqs}
        \cup {Body(<<1>>, "ok", TRUE, j) : j \in {"array", "invalid"}}
        \cup {Body(<<1>>, "error", TRUE, "object"), Body(<<1>>, "ok", FALSE, "object")}

HttpResponse(status, location, content_type, content_length, body) ==
    [kind |-> "http", status |-> status, location |-> location,
     content_type |-> content_type, content_length |-> content_length,
     body |-> body]

\* requests raised: exc is "RequestException" (a timeout, a refused
\* connection) or "Other" (any exception that is not a RequestException).
TransportError(exc) ==
    [kind |-> exc, status |-> 0, location |-> NoLocation,
     content_type |-> NoneVal, content_length |-> NoneVal, body |-> NoBody]

ContentTypes == {NoneVal, "", "application/jwk-set+json", "text/html"}

Responses ==
    {TransportError("RequestException"), TransportError("Other")}
    \cup {HttpResponse(302, l, NoneVal, NoneVal, NoBody) : l \in Locations}
    \cup {HttpResponse(st, RelLocation("/final"), "application/json", NoneVal, NoBody) :
            st \in {307, 304, 404}}
    \cup {HttpResponse(200, NoLocation, "application/jwk-set+json", NoneVal, b) : b \in Bodies}
    \cup {HttpResponse(200, NoLocation, ct, NoneVal, Body(<<1>>, "ok", TRUE, "object")) :
            ct \in ContentTypes}
    \cup {HttpResponse(200, NoLocation, "application/json", cl, Body(<<1>>, "ok", TRUE, "object")) :
            cl \in {"0", "1", "big", "abc"}}

RedirectStatuses == {301, 302, 303, 307, 308}

_is_json_content_type(content_type) ==
    content_type \in {"application/json", "application/jwk-set+json"}

RECURSIVE SumPrefix(_, _)
SumPrefix(chunks, n) == IF n = 0 THEN 0 ELSE SumPrefix(chunks, n - 1) + chunks[n]

\* The running total passes the cap after some chunk.
ExceedsCap(chunks, cap) == \E n \in 1..Len(chunks) : SumPrefix(chunks, n) > cap

\* Outcomes of a fetch: None, the parsed object, or an escaping exception.
FNone(why) == [kind |-> "None", why |-> why]
FDict == [kind |-> "dict", why |-> ""]
FRaise(exc) == [kind |-> exc, why |-> ""]

\* Lines 73-103 of fetch_json_url: a response that is not a redirect.
ReadJsonBody(response, max_download_bytes) ==
    IF response.status # 200 THEN FNone("status")
    ELSE IF Truthy(response.content_type) /\ ~_is_json_content_type(response.content_type)
        THEN FNone("content_type")
    ELSE IF ExceedsCap(response.body.chunks, max_download_bytes) THEN FNone("too_large")
    ELSE IF response.body.stream = "error" THEN FNone("stream")
    ELSE IF response.body.json = "invalid" THEN FNone("invalid_json")
    ELSE IF response.body.json # "object" THEN FNone("not_object")
    ELSE FDict

Settings(max_redirects, max_download_bytes, allow_http, require_https) ==
    [max_redirects |-> max_redirects, max_download_bytes |-> max_download_bytes,
     allow_http |-> allow_http, require_https |-> require_https]

SettingsSet ==
    {Settings(r, MaxBytes, a, TRUE) : r \in 0..MaxRedirects, a \in BOOLEAN}

FetchUrls ==
    {Url("https", NoneVal, NoneVal, PublicIp, "ok", "/redirect"), NamedUrl, BadPortUrl,
     Url("https", NoneVal, NoneVal, "localhost", "ok", "/data.json"),
     Url("http", NoneVal, NoneVal, PublicIp, "ok", "/redirect")}

NoFetch ==
    [pc |-> "idle", fn |-> "", settings |-> Settings(0, 0, FALSE, TRUE),
     url |-> UnparseableUrl, current_url |-> UnparseableUrl, hop |-> 0,
     vetted_url |-> UnparseableUrl, rejected |-> FALSE,
     result |-> FNone(""),
     key_exists |-> FALSE, reported |-> FALSE, status |-> NoneVal,
     stored |-> NoneVal, writer |-> 0]

NoCall == [url |-> UnparseableUrl, allow_http |-> FALSE, require_https |-> FALSE,
           done |-> FALSE, result |-> Return(FALSE, "")]


\* The resolver's answer for one name changes; vcall records calls made
\* under the present resolver only.
DnsChange ==
    /\ \E n \in Names, a \in DnsAnswers : dns' = [dns EXCEPT ![n] = a]
    /\ dns' # dns
    /\ vcall' = NoCall
    /\ UNCHANGED <<dssVars, rtreeVars, clusterVars, fetch, gets, jwksVars, gateVars, tokenVars>>

\* A GET, with what the history says of it: whether its URL is the one the
\* last validate_public_url call of this fetch passed, and whether a URL of
\* this fetch had been rejected before.
Get(f) ==
    [url |-> f.current_url, vetted |-> f.current_url = f.vetted_url,
     afterReject |-> f.rejected]

Done(f, result) == [f EXCEPT !.pc = "done", !.result = result]

\* A validate_public_url call of the fetch in progress that did not pass.
Rejected(f, v) ==
    [f EXCEPT !.pc = "done", !.rejected = TRUE,
              !.result = IF v.kind = "raise" THEN FRaise(v.reason) ELSE FNone("url")]

\* fetch_json_url, lines 38-44: the initial URL is validated before the loop.
fetch_json_url_Enter ==
    /\ fetch.pc = "idle"
    /\ \E url \in FetchUrls, settings \in SettingsSet :
        LET v == validate_public_url(url, settings.allow_http, settings.require_https, dns)
            f == [NoFetch EXCEPT !.fn = "fetch_json_url", !.settings = settings,
                                 !.url = url, !.current_url = url]
        IN  fetch' = IF v.kind = "return" /\ v.ok
                        THEN [f EXCEPT !.pc = "loop", !.vetted_url = url]
                        ELSE Rejected(f, v)
    /\ gets' = <<>>
    /\ UNCHANGED <<dssVars, rtreeVars, clusterVars, dns, vcall, jwksVars, gateVars, tokenVars>>

\* The redirect branch of fetch_json_url (lines 57-71): the target is
\* validated here, before the next pass of the loop sends a GET to it.
FollowRedirectUnvetted(f, response, resolver) ==
    IF response.location.kind \in {"absent", "empty"}
        THEN Done(f, FNone("no_location"))
    ELSE IF f.hop >= f.settings.max_redirects THEN Done(f, FNone("too_many_redirects"))
    ELSE IF response.location.kind = "bad" THEN Done(f, FRaise("ValueError"))
    ELSE [f EXCEPT !.current_url = urljoin(f.current_url, response.location),
                   !.hop = f.hop + 1]

FollowRedirect(f, response, resolver) ==
    IF response.location.kind \in {"absent", "empty"}
        THEN Done(f, FNone("no_location"))
    ELSE IF f.hop >= f.settings.max_redirects THEN Done(f, FNone("too_many_redirects"))
    ELSE IF response.location.kind = "bad" THEN Done(f, FRaise("ValueError"))
    ELSE LET next_url == urljoin(f.current_url, response.location)
             v == validate_public_url(next_url, f.settings.allow_http,
                                      f.settings.require_https, resolver)
         IN  IF v.kind = "return" /\ v.ok
                THEN [f EXCEPT !.current_url = next_url, !.hop = f.hop + 1,
                               !.vetted_url = next_url]
                ELSE Rejected([f EXCEPT !.current_url = next_url], v)

\* Lines 53-103 of fetch_json_url: what is made of the answer to the GET.
fetch_json_url_Response(f, response, resolver) ==
    IF response.kind # "http" THEN Done(f, FNone("transport"))
    ELSE IF response.status \in RedirectStatuses
        THEN FollowRedirect(f, response, resolver)
    ELSE Done(f, ReadJsonBody(response, f.settings.max_download_bytes))

\* One pass of the loop of fetch_json_url (lines 46-103): the GET and what
\* is made of its response.
fetch_json_url_Hop ==
    /\ fetch.pc = "loop" /\ fetch.fn = "fetch_json_url"
    /\ gets' = Append(gets, Get(fetch))
    /\ \E response \in Responses :
        fetch' = fetch_json_url_Response(fetch, response, dns)
    /\ UNCHANGED <<dssVars, rtreeVars, clusterVars, dns, vcall, jwksVars, gateVars, tokenVars>>

GeoError(why) == [kind |-> "GeoZoneDownloadError", why |-> why]

\* int(content_length) > GEOZONE_MAX_DOWNLOAD_BYTES; a value that is not a
\* number ("abc") raises ValueError, which the source passes over.
ContentLengthTooLarge(content_length, cap) ==
    /\ Truthy(content_length)
    /\ \/ content_length = "big"
       \/ content_length = "1" /\ 1 > cap
       \/ content_length = "0" /\ 0 > cap

\* Lines 57-93 of _fetch_geozone_json: a response that is not a redirect.
ReadGeozoneBody(response, cap) ==
    IF response.status # 200 THEN GeoError("http_status")
    ELSE IF ContentLengthTooLarge(response.content_length, cap)
        THEN GeoError("response_too_large")
    ELSE IF Truthy(response.content_type) /\ ~_is_json_content_type(response.content_type)
        THEN GeoError("unsupported_content_type")
    ELSE IF ExceedsCap(response.body.chunks, cap) THEN GeoError("response_too_large")
    ELSE IF response.body.stream = "error" THEN GeoError("request_failed")
    ELSE IF ~response.body.utf8 \/ response.body.json = "invalid"
        THEN GeoError("invalid_json")
    ELSE IF response.body.json # "object" THEN GeoError("json_not_object")
    ELSE FDict

\* _fetch_geozone_json, lines 33-34.  GEOZONE_MAX_REDIRECTS and
\* GEOZONE_MAX_DOWNLOAD_BYTES come from the environment, as IS_DEBUG does.
_fetch_geozone_json_Enter ==
    /\ fetch.pc = "idle"
    /\ \E url \in FetchUrls, settings \in SettingsSet :
        fetch' = [NoFetch EXCEPT !.pc = "loop", !.fn = "_fetch_geozone_json",
                                 !.settings = settings, !.url = url,
                                 !.current_url = url]
    /\ gets' = <<>>
    /\ UNCHANGED <<dssVars, rtreeVars, clusterVars, dns, vcall, jwksVars, gateVars, tokenVars>>

\* The top of the loop of _fetch_geozone_json (lines 37-39).
GeozoneVet(f, resolver) ==
    validate_public_url(f.current_url, f.settings.allow_http, TRUE, resolver)

\* The redirect branch (lines 50-55) and the end of the loop (line 95).
GeozoneRedirect(f, response) ==
    IF response.location.kind \in {"absent", "empty"}
        THEN Done(f, GeoError("redirect_without_location"))
    ELSE IF response.location.kind = "bad" THEN Done(f, FRaise("ValueError"))
    ELSE LET g == [f EXCEPT !.current_url = urljoin(f.current_url, response.location),
                            !.hop = f.hop + 1]
         IN  IF g.hop > g.settings.max_redirects
                THEN Done(g, GeoError("too_many_redirects"))
                ELSE g

\* Lines 42-93 of _fetch_geozone_json: what is made of the answer to the GET.
_fetch_geozone_json_Response(f, response) ==
    IF response.kind = "RequestException"
        THEN Done(f, GeoError("request_failed"))
    ELSE IF response.kind # "http" THEN Done(f, FRaise(response.kind))
    ELSE IF response.status \in RedirectStatuses
        THEN GeozoneRedirect(f, response)
    ELSE Done(f, ReadGeozoneBody(response, f.settings.max_download_bytes))

\* One pass of the loop of _fetch_geozone_json (lines 36-93): the URL is
\* validated, then the GET is sent.
_fetch_geozone_json_Hop ==
    /\ fetch.pc = "loop"
    /\ fetch.fn \in {"_fetch_geozone_json", "download_geozone_source"}
    /\ LET v == GeozoneVet(fetch, dns) IN
        IF ~(v.kind = "return" /\ v.ok)
        THEN /\ fetch' = [Rejected(fetch, v) EXCEPT
                            !.result = IF v.kind = "raise" THEN FRaise(v.reason)
                                       ELSE GeoError("url_not_allowed")]
             /\ gets' = gets
        ELSE LET f0 == [fetch EXCEPT !.vetted_url = fetch.current_url] IN
             /\ gets' = Append(gets, Get(f0))
             /\ \E response \in Responses :
                fetch' = _fetch_geozone_json_Response(f0, response)
    /\ UNCHANGED <<dssVars, rtreeVars, clusterVars, dns, vcall, jwksVars, gateVars, tokenVars>>

\* download_geozone_source, lines 100-103: the task calls
\* _fetch_geozone_json.  key_exists: whether the store holds the key
\* "geoawarenes_test.<geozone_source_id>" of the status.
download_geozone_source_Enter ==
    /\ fetch.pc = "idle"
    /\ \E url \in FetchUrls, settings \in SettingsSet, key_exists \in BOOLEAN :
        fetch' = [NoFetch EXCEPT !.pc = "loop", !.fn = "download_geozone_source",
                                 !.settings = settings, !.url = url,
                                 !.current_url = url, !.key_exists = key_exists]
    /\ gets' = <<>>
    /\ UNCHANGED <<dssVars, rtreeVars, clusterVars, dns, vcall, jwksVars, gateVars, tokenVars>>

\* error.message.startswith("url_not_allowed:") of line 110.
StartsWithUrlNotAllowed(why) == why = "url_not_allowed"

\* Line 110.
GeozoneResult(why) == IF StartsWithUrlNotAllowed(why) THEN "Rejected" ELSE "Error"

\* Lines 104-122, once _fetch_geozone_json has returned or raised.  queued:
\* whether write_geo_zone.delay took the object.  An exception that is
\* neither GeoZoneDownloadError nor requests' ConnectionError leaves the
\* task before line 121.
download_geozone_source_Report ==
    /\ fetch.pc = "done" /\ fetch.fn = "download_geozone_source"
    /\ ~fetch.reported
    /\ \E queued \in BOOLEAN :
        LET f == fetch
            result ==
                IF f.result.kind = "dict" THEN IF queued THEN "Ready" ELSE "Error"
                ELSE IF f.result.kind = "GeoZoneDownloadError"
                    THEN GeozoneResult(f.result.why)
                ELSE NoneVal
        IN  /\ f.result.kind # "dict" => queued
            /\ fetch' = [f EXCEPT
                    !.reported = TRUE,
                    !.status = result,
                    !.writer = IF f.result.kind = "dict" /\ queued THEN 1 ELSE 0,
                    !.stored = IF result # NoneVal /\ f.key_exists THEN result
                               ELSE NoneVal]
    /\ UNCHANGED <<dssVars, rtreeVars, clusterVars, dns, vcall, gets, jwksVars, gateVars, tokenVars>>

\* The caller has its answer; the next call starts afresh.
FetchReturn ==
    /\ fetch.pc = "done"
    /\ fetch.fn = "download_geozone_source" => fetch.reported
    /\ fetch' = NoFetch
    /\ gets' = <<>>
    /\ UNCHANGED <<dssVars, rtreeVars, clusterVars, dns, vcall, jwksVars, gateVars, tokenVars>>

(***************************************************************************)
(* The JWKS cache under concurrent callers.                                *)
(***************************************************************************)
\* What a caller saw published when its call started: the key set and its
\* expiry (history kept for the properties; the code does not read it).
NothingSeen == [jwks |-> NoJwks, expires_at |-> 0]

IdleCaller ==
    [pc |-> "idle", url |-> "passport", force_refresh |-> FALSE, required |-> FALSE,
     now |-> 0, outcome |-> FetchFailed, seen |-> NothingSeen]

\* A caller that has made no call yet.
NoAnswer ==
    [url |-> "passport", force_refresh |-> FALSE, required |-> FALSE,
     answer |-> [kind |-> "none", jwks |-> NoJwks, public_keys |-> {}, fetched |-> FALSE]]

Answered(call, answer) ==
    [url |-> call.url, force_refresh |-> call.force_refresh,
     required |-> call.required, answer |-> answer]

StandardConfig == JwksConfig(2, 1, 4)

JwksTick ==
    /\ jclock < MaxJwksClock
    /\ jclock' = jclock + 1
    /\ UNCHANGED <<dssVars, rtreeVars, clusterVars, netVars, gateVars, tokenVars, jcfg, _JWKS_CACHE_LOCK, JWKS_CACHE, jw, jret>>

\* Line 51: the call reads the clock, then waits for the lock.
JwksCall(p, url) ==
    /\ jw[p].pc = "idle"
    /\ \E force_refresh \in BOOLEAN, required \in BOOLEAN :
        jw' = [jw EXCEPT ![p] = [pc |-> "check", url |-> url,
                                 force_refresh |-> force_refresh,
                                 required |-> required, now |-> jclock,
                                 outcome |-> FetchFailed,
                                 seen |-> [jwks |-> JWKS_CACHE[url].jwks,
                                           expires_at |-> JWKS_CACHE[url].expires_at]]]
    /\ jret' = [jret EXCEPT ![p] = NoAnswer]
    /\ UNCHANGED <<dssVars, rtreeVars, clusterVars, netVars, gateVars, tokenVars, jcfg, _JWKS_CACHE_LOCK, jclock, JWKS_CACHE>>

\* Lines 52-77: the critical section before the fetch.
UnderLockBeforeFetch(p) ==
    /\ LET url == jw[p].url
           entry == IF JWKS_CACHE[url] = NoEntry THEN NewEntry(jcfg) ELSE JWKS_CACHE[url]
           answer == CachedAnswer(entry, jw[p].now, jw[p].force_refresh, jw[p].required)
       IN  /\ JWKS_CACHE' = [JWKS_CACHE EXCEPT ![url] = entry]
           /\ IF answer.kind = "fetch"
                THEN /\ jw' = [jw EXCEPT ![p].pc = "fetch", ![p].seen = NothingSeen]
                     /\ jret' = jret
                ELSE /\ jw' = [jw EXCEPT ![p] = IdleCaller]
                     /\ jret' = [jret EXCEPT ![p] = Answered(jw[p], answer)]
    /\ UNCHANGED <<dssVars, rtreeVars, clusterVars, netVars, gateVars, tokenVars, jcfg, jclock>>

\* The lock is free, and taken and released within the step.
JwksCheck(p) ==
    /\ jw[p].pc = "check"
    /\ _JWKS_CACHE_LOCK = Unlocked
    /\ UnderLockBeforeFetch(p)
    /\ UNCHANGED _JWKS_CACHE_LOCK

\* Lines 80-86 and 95-97: the GET ends (with a JSON object, or with an
\* error: a transport error, an HTTP error status, a body that is not a
\* JSON object) and the clock is read again.
JwksFetched(p) ==
    /\ jw[p].pc = "fetch"
    /\ \E outcome \in JwksDocs \cup {FetchFailed} :
        jw' = [jw EXCEPT ![p].pc = "publish", ![p].outcome = outcome,
                         ![p].now = jclock]
    /\ UNCHANGED <<dssVars, rtreeVars, clusterVars, netVars, gateVars, tokenVars, jcfg, _JWKS_CACHE_LOCK, jclock, JWKS_CACHE, jret>>

\* Lines 87-94 and 98-109: the critical section after the fetch.
UnderLockAfterFetch(p) ==
    /\ LET url == jw[p].url
           entry == JWKS_CACHE[url]
           data == jw[p].outcome
       IN  IF data = FetchFailed
           THEN /\ JWKS_CACHE' = [JWKS_CACHE EXCEPT ![url] = PublishFailure(entry, jw[p].now, jcfg)]
                /\ jret' = [jret EXCEPT ![p] =
                              Answered(jw[p], AnswerAfterFailure(entry, jw[p].required))]
           ELSE /\ JWKS_CACHE' = [JWKS_CACHE EXCEPT ![url] = PublishSuccess(entry, jw[p].now, data, jcfg)]
                /\ jret' = [jret EXCEPT ![p] =
                              Answered(jw[p], JReturn(data, _build_public_keys(data), TRUE))]
    /\ jw' = [jw EXCEPT ![p] = IdleCaller]
    /\ UNCHANGED <<dssVars, rtreeVars, clusterVars, netVars, gateVars, tokenVars, jcfg, jclock>>

JwksPublish(p) ==
    /\ jw[p].pc = "publish"
    /\ _JWKS_CACHE_LOCK = Unlocked
    /\ UnderLockAfterFetch(p)
    /\ UNCHANGED _JWKS_CACHE_LOCK

\* threading.Lock: what the lock holds once its holder leaves the with block
\* (by falling through, return or raise).
LockKeptOnExit(holder) == holder

LockRelease(holder) == Unlocked

\* Lines 52 and 87, 98: the caller waits until the lock is free and takes it.
JwksAcquire(p) ==
    /\ jw[p].pc \in {"check", "publish"}
    /\ _JWKS_CACHE_LOCK = Unlocked
    /\ _JWKS_CACHE_LOCK' = p
    /\ jw' = [jw EXCEPT ![p].pc = IF jw[p].pc = "check" THEN "check_locked"
                                  ELSE "publish_locked"]
    /\ UNCHANGED <<dssVars, rtreeVars, clusterVars, netVars, gateVars, tokenVars, jcfg, jclock,
                   JWKS_CACHE, jret>>

\* Lines 53-77: the block under the lock, left by falling through to the
\* fetch, by return or by raise.
JwksCheckLocked(p) ==
    /\ jw[p].pc = "check_locked"
    /\ _JWKS_CACHE_LOCK = p
    /\ UnderLockBeforeFetch(p)
    /\ _JWKS_CACHE_LOCK' = LockRelease(p)

\* Lines 88-93 and 99-104: the block under the lock after the fetch.
JwksPublishLocked(p) ==
    /\ jw[p].pc = "publish_locked"
    /\ _JWKS_CACHE_LOCK = p
    /\ UnderLockAfterFetch(p)
    /\ _JWKS_CACHE_LOCK' = LockRelease(p)

\* A validate_public_url call on its own.
Validate ==
    /\ \E url \in Urls, allow_http \in BOOLEAN, require_https \in BOOLEAN :
         vcall' = [url |-> url, allow_http |-> allow_http,
                   require_https |-> require_https, done |-> TRUE,
                   result |-> validate_public_url(url, allow_http, require_https, dns)]
    /\ UNCHANGED <<dssVars, rtreeVars, clusterVars, dns, fetch, gets, jwksVars, gateVars, tokenVars>>

(***************************************************************************)
(* The request gate: requires_scopes and handle_bypass_verification.       *)
(* A token is the record of what PyJWT reads from it.  Key material is     *)
(* named by its kid: a signature made with the private key of kid k        *)
(* verifies against the public key a JWKS document lists under k and       *)
(* against no other; "forged" is a key no endpoint lists.                  *)
(***************************************************************************)
ApiIdentifier == "testflight.flightblender.com"

BearerToken(alg, kid, signed_by, payload_ok, exp, aud, iss, scope) ==
    [auth |-> "bearer", header_ok |-> TRUE, alg |-> alg, kid |-> kid,
     signed_by |-> signed_by, payload_ok |-> payload_ok, exp |-> exp,
     aud |-> aud, iss |-> iss, scope |-> scope]

GoodToken == BearerToken("RS256", "k1", "k1", TRUE, "valid", ApiIdentifier,
                         "https://passport.example/", {"read", "write"})

\* The requests: no Authorization header, a header of one part, a token
\* whose header does not decode, and tokens that differ from GoodToken in
\* one respect each.
Tokens ==
    {[GoodToken EXCEPT !.auth = "absent"],
     [GoodToken EXCEPT !.auth = "one_part"],
     [GoodToken EXCEPT !.header_ok = FALSE],
     GoodToken,
     [GoodToken EXCEPT !.scope = {"read"}],
     [GoodToken EXCEPT !.scope = {}],
     [GoodToken EXCEPT !.iss = "https://evil.example"],
     [GoodToken EXCEPT !.iss = NoneVal],
     [GoodToken EXCEPT !.iss = "dummy"],
     [GoodToken EXCEPT !.iss = "mailto:ops@passport.example"],
     [GoodToken EXCEPT !.signed_by = "forged"],
     [GoodToken EXCEPT !.kid = "k2", !.signed_by = "k2"],
     [GoodToken EXCEPT !.kid = "d1", !.signed_by = "d1"],
     [GoodToken EXCEPT !.kid = "k9", !.signed_by = "forged"],
     [GoodToken EXCEPT !.kid = NoneVal],
     [GoodToken EXCEPT !.exp = "expired"],
     [GoodToken EXCEPT !.aud = "other"],
     [GoodToken EXCEPT !.aud = NoneVal],
     [GoodToken EXCEPT !.aud = ""],
     [GoodToken EXCEPT !.alg = "HS256"],
     [GoodToken EXCEPT !.payload_ok = FALSE]}

\* The decorated views: required_scopes and allow_any.
View(required_scopes, allow_any) ==
    [required_scopes |-> required_scopes, allow_any |-> allow_any]

Views == {View({"read"}, FALSE), View({"read", "write"}, FALSE),
          View({"write", "admin"}, TRUE)}

\* What each JWKS endpoint may answer during one request: Passport lists
\* k1, or k1 and k2 once it has rotated its keys, or answers the empty
\* object; the DSS lists d1.
Served(url) ==
    IF url = "passport"
        THEN {EmptyObject, KeySet({Jwk("k1", TRUE)}),
              KeySet({Jwk("k1", TRUE), Jwk("k2", TRUE)}), FetchFailed}
    ELSE {KeySet({Jwk("d1", TRUE)}), FetchFailed}

\* _get_jwks_cached run from start to end by one caller: the cache after
\* the call and what the call gave back.  outcome is what the endpoint
\* answers if the call sends a GET.
_get_jwks_cached(cache, cfg, url, now, force_refresh, required, outcome) ==
    LET entry == IF cache[url] = NoEntry THEN NewEntry(cfg) ELSE cache[url]
        answer == CachedAnswer(entry, now, force_refresh, required)
    IN  IF answer.kind # "fetch"
            THEN [cache |-> [cache EXCEPT ![url] = entry], answer |-> answer]
        ELSE IF outcome = FetchFailed
            THEN [cache |-> [cache EXCEPT ![url] = PublishFailure(entry, now, cfg)],
                  answer |-> AnswerAfterFailure(entry, required)]
        ELSE [cache |-> [cache EXCEPT ![url] = PublishSuccess(entry, now, outcome, cfg)],
              answer |-> JReturn(outcome, _build_public_keys(outcome), TRUE)]

\* The configuration the gate runs under: a TTL of one tick.
GateConfig == JwksConfig(1, 1, 2)

\* Python's truth value of an int.
IntTruthy(n) == n # 0

\* Line 171.
bypass_enabled_ignoring_debug(BYPASS_AUTH_TOKEN_VERIFICATION, IS_DEBUG) ==
    IntTruthy(BYPASS_AUTH_TOKEN_VERIFICATION)

bypass_enabled(BYPASS_AUTH_TOKEN_VERIFICATION, IS_DEBUG) ==
    IntTruthy(BYPASS_AUTH_TOKEN_VERIFICATION) /\ IntTruthy(IS_DEBUG)

\* jwt.decode(token, public_key, audience=API_IDENTIFIER, algorithms=["RS256"],
\* options={"require": ["exp", "iss", "aud"]}) of lines 214-220: "ok" or
\* the exception raised.  No issuer is passed, so iss is only required to
\* be present.
jwt_decode(token, kid) ==
    IF token.alg # "RS256" THEN "InvalidAlgorithmError"
    ELSE IF token.signed_by # kid THEN "InvalidSignatureError"
    ELSE IF ~token.payload_ok THEN "DecodeError"
    ELSE IF token.exp = NoneVal \/ token.iss = NoneVal \/ token.aud = NoneVal
        THEN "MissingRequiredClaimError"
    ELSE IF token.exp = "expired" THEN "ExpiredSignatureError"
    ELSE IF token.aud # ApiIdentifier THEN "InvalidAudienceError"
    ELSE "ok"

\* The exceptions lines 221-229 catch.
CaughtTokenErrors ==
    {"ImmatureSignatureError", "ExpiredSignatureError", "InvalidAudienceError",
     "InvalidIssuerError", "InvalidSignatureError", "DecodeError",
     "MissingRequiredClaimError"}

\* Line 236.
ScopePolicy(view, scopes) ==
    \/ view.allow_any /\ (scopes \cap view.required_scopes) # {}
    \/ view.required_scopes \subseteq scopes

\* Lines 263-266 with every iss taken for an http(s) URL.
IssIsHttpUrlAlways(iss) == TRUE

\* urlparse(iss): a scheme of http or https and a netloc (lines 264-265).
IssIsHttpUrl(iss) == iss \in {"https://passport.example/", "https://evil.example"}

\* An answer of the gate.  handler: the wrapped view was invoked; path:
\* how far the request went; verified_with: the kid of the key the
\* signature was verified against; refreshed: the URLs whose JWKS were
\* fetched with force_refresh; kid_in_refreshed: whether the refreshed
\* keys hold the token's kid; stale: the Passport keys of line 178 came
\* from an entry that had expired and was not renewed.
Answer(status, detail, handler, path) ==
    [status |-> status, detail |-> detail, handler |-> handler, path |-> path,
     verified_with |-> NoneVal, refreshed |-> {}, kid_in_refreshed |-> FALSE,
     stale |-> FALSE]

JsonResponse(status, detail, path) == Answer(status, detail, FALSE, path)
Handler(path) == Answer(200, "handler", TRUE, path)
Uncaught(exc, path) == Answer(500, exc, FALSE, path)

\* handle_bypass_verification (lines 246-274).
handle_bypass_verification(token, view) ==
    IF ~token.payload_ok THEN JsonResponse(401, "Invalid token provided", "bypass")
    ELSE IF ~(view.required_scopes \subseteq token.scope)
        THEN JsonResponse(403, "You don't have access to this resource", "bypass")
    ELSE IF token.iss = NoneVal \/ token.iss = ""
        THEN JsonResponse(401, "Incomplete token provided, issuer", "bypass")
    ELSE IF token.iss # "dummy" /\ ~IssIsHttpUrl(token.iss)
        THEN JsonResponse(401, "Issuer (iss) claim is not a valid URL", "bypass")
    ELSE IF token.aud = NoneVal \/ token.aud = ""
        THEN JsonResponse(401, "Incomplete token provided, audience", "bypass")
    ELSE Handler("bypass")

\* Lines 212-239: the signature and the claims are verified with the key
\* of the token's kid, then the scopes are checked.
VerifyAndDispatch(token, view, kid) ==
    LET outcome == jwt_decode(token, kid) IN
    IF outcome = "ok"
        THEN IF ScopePolicy(view, token.scope)
                THEN [Handler("verified") EXCEPT !.verified_with = kid]
                ELSE [JsonResponse(403, "You don't have access to this resource",
                                   "verified") EXCEPT !.verified_with = kid]
    ELSE IF outcome \in CaughtTokenErrors
        THEN JsonResponse(401, "Invalid token", "verified")
    ELSE Uncaught(outcome, "verified")

\* Lines 195-210: the kid is not among the keys.  Both JWKS are fetched
\* with force_refresh, the second only if the first did not raise, and the
\* request is answered 401 whatever the refreshed keys hold.
UnknownKid(token, cache, cfg, now, op, od) ==
    LET p == _get_jwks_cached(cache, cfg, "passport", now, TRUE, TRUE, op)
        d == _get_jwks_cached(p.cache, cfg, "dss", now, TRUE, FALSE, od)
        response == JsonResponse(401, "the signing key id is not present in JWKS",
                                 "verified")
    IN  IF p.answer.kind = "JwksFetchError"
            THEN [cache |-> p.cache,
                  response |-> [response EXCEPT !.refreshed = {"passport"}]]
            ELSE [cache |-> d.cache,
                  response |-> [response EXCEPT
                      !.refreshed = {"passport", "dss"},
                      !.kid_in_refreshed =
                          token.kid \in p.answer.public_keys \cup d.answer.public_keys]]

\* Lines 177-239: the path that verifies.
VerifiedPath(token, view, cache, cfg, now, op, od) ==
    LET p == _get_jwks_cached(cache, cfg, "passport", now, FALSE, TRUE, op)
        d == _get_jwks_cached(p.cache, cfg, "dss", now, FALSE, FALSE, od)
        public_keys == p.answer.public_keys \cup d.answer.public_keys
        stale == p.cache["passport"].expires_at <= now
        unknown == UnknownKid(token, d.cache, cfg, now, op, od)
    IN  IF p.answer.kind = "JwksFetchError"
            THEN [cache |-> p.cache,
                  response |-> JsonResponse(503, "Public Key Server could not be reached",
                                            "verified")]
        ELSE IF token.kid = NoneVal \/ token.kid \notin public_keys
            THEN [unknown EXCEPT !.response.stale = stale]
        ELSE [cache |-> d.cache,
              response |-> [VerifyAndDispatch(token, view, token.kid) EXCEPT
                               !.stale = stale]]

\* The request waits for the JWKS calls of lines 177-193.
Pending == Answer(0, "", FALSE, "keys")

\* requires_scopes.decorated up to line 175: the Authorization header, the
\* token's header, and the choice between the bypass and the verification.
decorated(token, view, env) ==
    IF token.auth # "bearer"
        THEN JsonResponse(401, "Authentication credentials were not provided", "parse")
    ELSE IF ~token.header_ok
        THEN JsonResponse(401, "Bearer token could not be decoded properly", "parse")
    ELSE IF bypass_enabled(env.BYPASS_AUTH_TOKEN_VERIFICATION, env.IS_DEBUG)
        THEN handle_bypass_verification(token, view)
    ELSE Pending

NoRequest ==
    [token |-> [GoodToken EXCEPT !.auth = "absent"], view |-> View({"read"}, FALSE),
     response |-> Answer(0, "", FALSE, "none")]

\* A request arrives at a decorated view (lines 144-175).
RequestArrives ==
    /\ greq = NoRequest
    /\ \E token \in Tokens, view \in Views :
        greq' = [token |-> token, view |-> view,
                 response |-> decorated(token, view, genv)]
    /\ UNCHANGED <<dssVars, rtreeVars, clusterVars, netVars, tokenVars, jwksVars, genv>>

\* The tokens that differ in their kid and in what the lookup of the kid
\* leads to.
KidTokens ==
    {token \in Tokens :
        /\ token.auth = "bearer" /\ token.header_ok /\ token.payload_ok
        /\ token.alg = "RS256" /\ token.exp = "valid" /\ token.aud = ApiIdentifier
        /\ token.iss = "https://passport.example/"}

\* A request with one of these tokens arrives (lines 144-175).
RequestArrivesWithKid ==
    /\ greq = NoRequest
    /\ \E token \in KidTokens, view \in Views :
        greq' = [token |-> token, view |-> view,
                 response |-> decorated(token, view, genv)]
    /\ UNCHANGED <<dssVars, rtreeVars, clusterVars, netVars, tokenVars, jwksVars, genv>>

\* The request goes through lines 177-239: the JWKS calls, the lookup of
\* the kid, the verification, the scopes.
RequestVerified ==
    /\ greq.response.path = "keys"
    /\ \E op \in Served("passport"), od \in Served("dss") :
        LET r == VerifiedPath(greq.token, greq.view, JWKS_CACHE, jcfg, jclock, op, od) IN
        /\ JWKS_CACHE' = r.cache
        /\ greq' = [greq EXCEPT !.response = r.response]
    /\ UNCHANGED <<dssVars, rtreeVars, clusterVars, netVars, tokenVars, jcfg, _JWKS_CACHE_LOCK, jclock, jw, jret, genv>>

\* The answer has gone back to the client.
RequestAnswered ==
    /\ greq.response.path \notin {"none", "keys"}
    /\ greq' = NoRequest
    /\ UNCHANGED <<dssVars, rtreeVars, clusterVars, netVars, tokenVars, jwksVars, genv>>

(***************************************************************************)
(* The authority token broker: AuthorityCredentialsGetter.                 *)
(* A datetime is minutes and microseconds; Instants are the times the      *)
(* clock passes through.  isoformat() writes the fraction of a second      *)
(* only when the microseconds are not zero, and strptime with the format   *)
(* "%Y-%m-%dT%H:%M:%S.%f" raises ValueError on a string without it.        *)
(***************************************************************************)
TokenLifetimeMin == 58

MaxIssued == 2

Instant(m, us) == [m |-> m, us |-> us]

Instants == <<Instant(0, 7), Instant(1, 0), Instant(1, 7), Instant(58, 7), Instant(59, 7)>>

Before(a, b) == a.m < b.m \/ (a.m = b.m /\ a.us < b.us)

PlusMinutes(dt, n) == [dt EXCEPT !.m = dt.m + n]

isoformat(dt) == [m |-> dt.m, us |-> dt.us, fraction |-> dt.us # 0]

strptime(text) ==
    IF text.fraction THEN [kind |-> "datetime", value |-> Instant(text.m, text.us)]
    ELSE [kind |-> "ValueError", value |-> Instant(0, 0)]

TokenWorkers == {"a", "b"}
Audiences == {"uss1.example"}
TokenTypes == {"rid", "scd", "bogus"}

\* Lines 47-52: no branch binds token_suffix for another token_type.
token_suffix(token_type) ==
    IF token_type = "rid" THEN "_auth_rid_token"
    ELSE IF token_type = "scd" THEN "_auth_scd_token"
    ELSE IF token_type = "constraints" THEN "_auth_constraints_token"
    ELSE NoneVal

cache_key(audience, token_type) == <<audience, token_suffix(token_type)>>

CacheKeys == {cache_key(a, t) : a \in Audiences, t \in {"rid", "scd"}}

\* What the token endpoint's JSON body is: credentials, or an error body.
Credentials(n) == [kind |-> "credentials", access_token |-> n]
ErrorBody == [kind |-> "error", access_token |-> 0]
NoCredentials == [kind |-> "none", access_token |-> 0]

\* A key of the store: absent, or a record with or without a time to live.
Absent ==
    [present |-> FALSE, credentials |-> NoCredentials,
     created_at |-> isoformat(Instant(0, 0)), ttl |-> FALSE,
     expire_at |-> Instant(0, 0)]

\* redis.get: a key whose time to live has run out is gone.
redis_get(store, key, now) ==
    IF store[key].present /\ ~(store[key].ttl /\ ~Before(now, store[key].expire_at))
        THEN store[key]
        ELSE Absent

\* redis.set that writes the credentials into the record already there.
redis_set_keeping_created_at(store, key, credentials, created_at) ==
    [store EXCEPT ![key] = [present |-> TRUE, credentials |-> credentials,
                            created_at |-> IF store[key].present THEN store[key].created_at
                                           ELSE created_at,
                            ttl |-> FALSE, expire_at |-> Instant(0, 0)]]

\* redis.set (lines 80-83): the record replaces the key and its time to live.
redis_set(store, key, credentials, created_at) ==
    [store EXCEPT ![key] = [present |-> TRUE, credentials |-> credentials,
                            created_at |-> created_at, ttl |-> FALSE,
                            expire_at |-> Instant(0, 0)]]

\* redis.expire (line 84) on a key that exists.
redis_expire(store, key, now) ==
    IF redis_get(store, key, now).present
        THEN [store EXCEPT ![key] = [redis_get(store, key, now) EXCEPT
                                        !.ttl = TRUE,
                                        !.expire_at = PlusMinutes(now, TokenLifetimeMin)]]
        ELSE [store EXCEPT ![key] = Absent]

\* Lines 58-63: what a stored record gives a getter whose self.now is now.
\* "hit", "miss" (the record is too old) or "ValueError".
ReadRecord(record, self_now, call_time) ==
    LET set_date == strptime(record.created_at) IN
    IF set_date.kind = "ValueError" THEN "ValueError"
    ELSE IF Before(self_now, PlusMinutes(set_date.value, TokenLifetimeMin)) THEN "hit"
    ELSE "miss"

\* The answers of the token endpoint to one request.
TokenResponse(status, json) == [kind |-> "http", status |-> status, json |-> json]
TokenResponses ==
    {TokenResponse(200, "credentials"), TokenResponse(200, "not_json"),
     TokenResponse(401, "error"), TokenResponse(404, "not_json"),
     [kind |-> "RequestException", status |-> 0, json |-> "not_json"]}

\* try_parse_json (lines 101-106) on a response: the body, or ValueError.
\* n numbers the credentials the endpoint issues.
try_parse_json(response, n) ==
    IF response.json = "credentials" THEN [kind |-> "return", value |-> Credentials(n)]
    ELSE IF response.json = "error" THEN [kind |-> "return", value |-> ErrorBody]
    ELSE [kind |-> "raise", value |-> NoCredentials]

Raised == [kind |-> "raise", value |-> NoCredentials]

\* Lines 134-139 with the GET of lines 142-158 sent only after a POST
\* whose status is not 200.
_request_credentials_no_get_after_bad_json(url_is_local, post, get, n) ==
    IF url_is_local
        THEN [sent |-> <<"GET">>,
              outcome |-> IF get.kind # "http" THEN Raised ELSE try_parse_json(get, n)]
    ELSE IF post.kind # "http" THEN [sent |-> <<"POST">>, outcome |-> Raised]
    ELSE IF post.status = 200
        THEN [sent |-> <<"POST">>, outcome |-> try_parse_json(post, n)]
    ELSE [sent |-> <<"POST", "GET">>,
          outcome |-> IF get.kind # "http" THEN Raised ELSE try_parse_json(get, n)]

\* _request_credentials (lines 95-158): the requests sent and the outcome.
\* url_is_local: DSS_AUTH_URL starts with http(s)://local_ or local-.
_request_credentials(url_is_local, post, get, n) ==
    IF url_is_local
        THEN [sent |-> <<"GET">>,
              outcome |-> IF get.kind # "http" THEN Raised ELSE try_parse_json(get, n)]
    ELSE IF post.kind # "http" THEN [sent |-> <<"POST">>, outcome |-> Raised]
    ELSE IF post.status = 200 /\ try_parse_json(post, n).kind = "return"
        THEN [sent |-> <<"POST">>, outcome |-> try_parse_json(post, n)]
    ELSE [sent |-> <<"POST", "GET">>,
          outcome |-> IF get.kind # "http" THEN Raised ELSE try_parse_json(get, n)]

NoResult == [kind |-> "none", value |-> NoCredentials, hit |-> FALSE]

IdleWorker ==
    [pc |-> "idle", token_type |-> "rid",
     key |-> cache_key("uss1.example", "rid"), called_at |-> 1,
     credentials |-> NoCredentials, sent |-> <<>>, result |-> NoResult]

\* Per key: the call time of the last call that missed and wrote the key
\* (a place in Instants, 0 for none), and the token requests sent so far.
NoLog == [miss_at |-> 0, requests |-> 0]

Now == Instants[tclock]

RECURSIVE RequestsIn(_, _)
RequestsIn(log, keys) ==
    IF keys = {} THEN 0
    ELSE LET k == CHOOSE x \in keys : TRUE
         IN  log[k].requests + RequestsIn(log, keys \ {k})

\* The token requests sent so far, over all keys.
TokenRequests == RequestsIn(tlog, CacheKeys)

TokenTick ==
    /\ tclock < Len(Instants)
    /\ tclock' = tclock + 1
    /\ UNCHANGED <<dssVars, rtreeVars, clusterVars, netVars, jwksVars, gateVars, tenv, redis, getter, tw, tlog>>

\* AuthorityCredentialsGetter() (lines 42-44): self.now is read once.
Construct(w) ==
    /\ tw[w].pc = "idle"
    /\ getter' = [getter EXCEPT ![w] = [now |-> Now]]
    /\ getter'[w] # getter[w]
    /\ UNCHANGED <<dssVars, rtreeVars, clusterVars, netVars, jwksVars, gateVars, tenv, tclock, redis, tw, tlog>>

\* get_cached_credentials up to line 63.
get_cached_credentials_Read(w) ==
    /\ tw[w].pc = "idle"
    /\ \E audience \in Audiences, token_type \in TokenTypes :
        LET call == [IdleWorker EXCEPT !.called_at = tclock,
                                       !.token_type = token_type] IN
        IF token_suffix(token_type) = NoneVal
        THEN tw' = [tw EXCEPT ![w] = [call EXCEPT !.pc = "returned",
                        !.result = [kind |-> "UnboundLocalError",
                                    value |-> NoCredentials, hit |-> FALSE]]]
        ELSE LET key == cache_key(audience, token_type)
                 token_details == redis_get(redis, key, Now)
                 read == IF token_details.present
                            THEN ReadRecord(token_details, getter[w].now, Now)
                            ELSE "miss"
             IN  tw' = [tw EXCEPT ![w] =
                    IF read = "hit"
                        THEN [call EXCEPT !.pc = "returned", !.key = key,
                                !.result = [kind |-> "return",
                                            value |-> token_details.credentials,
                                            hit |-> TRUE]]
                    ELSE IF read = "ValueError"
                        THEN [call EXCEPT !.pc = "returned", !.key = key,
                                !.result = [kind |-> "ValueError",
                                            value |-> NoCredentials, hit |-> FALSE]]
                    ELSE [call EXCEPT !.pc = "request", !.key = key]]
    /\ UNCHANGED <<dssVars, rtreeVars, clusterVars, netVars, jwksVars, gateVars, tenv, tclock, redis, getter, tlog>>

\* Line 65: _get_credentials, which ends in _request_credentials.
get_cached_credentials_Request(w) ==
    /\ tw[w].pc = "request"
    /\ TokenRequests < MaxIssued
    /\ \E post \in TokenResponses, get \in TokenResponses :
        LET n == tlog[tw[w].key].requests + 1
            r == _request_credentials(tenv.url_is_local, post, get, TokenRequests + 1)
        IN  /\ tw' = [tw EXCEPT ![w] =
                    IF r.outcome.kind = "raise"
                        THEN [tw[w] EXCEPT !.pc = "returned", !.sent = r.sent,
                                !.result = [kind |-> "raise", value |-> NoCredentials,
                                            hit |-> FALSE]]
                        ELSE [tw[w] EXCEPT !.pc = "set", !.sent = r.sent,
                                !.credentials = r.outcome.value]]
            /\ tlog' = [tlog EXCEPT ![tw[w].key].requests = n]
    /\ UNCHANGED <<dssVars, rtreeVars, clusterVars, netVars, jwksVars, gateVars, tenv, tclock, redis, getter>>

\* Lines 80-83: redis.set with created_at = self.now.isoformat().
_cache_credentials_Set(w) ==
    /\ tw[w].pc = "set"
    /\ redis' = redis_set(redis, tw[w].key, tw[w].credentials, isoformat(getter[w].now))
    /\ tw' = [tw EXCEPT ![w].pc = "expire"]
    /\ tlog' = [tlog EXCEPT ![tw[w].key].miss_at = tw[w].called_at]
    /\ UNCHANGED <<dssVars, rtreeVars, clusterVars, netVars, jwksVars, gateVars, tenv, tclock, getter>>

\* Line 84 and line 67: redis.expire, and the credentials go to the caller.
_cache_credentials_Expire(w) ==
    /\ tw[w].pc = "expire"
    /\ redis' = redis_expire(redis, tw[w].key, Now)
    /\ tw' = [tw EXCEPT ![w].pc = "returned",
                        ![w].result = [kind |-> "return", value |-> tw[w].credentials,
                                       hit |-> FALSE]]
    /\ UNCHANGED <<dssVars, rtreeVars, clusterVars, netVars, jwksVars, gateVars, tenv, tclock, getter, tlog>>

\* The caller has its answer.
TokenReturn(w) ==
    /\ tw[w].pc = "returned"
    /\ tw' = [tw EXCEPT ![w] = IdleWorker]
    /\ UNCHANGED <<dssVars, rtreeVars, clusterVars, netVars, jwksVars, gateVars, tenv, tclock, redis, getter, tlog>>

(***************************************************************************)
(* The DSS federation coordinator: rid_operations/dss_rid_helper.py.       *)
(* A uuid4 draw is the next number never drawn before.  The token broker   *)
(* and the DSS are the environment: each call of them ends in one of the   *)
(* outcomes below.                                                         *)
(***************************************************************************)
MaxDssCalls == 1
MaxSubscribers == 2

\* What stands between two commas of RID_FALLBACK_USS_URLS.
FallbackEntries == {"", " ", "https://uss1.example", "uss2.example/"}

strip(entry) == IF entry = " " THEN "" ELSE entry

\* Lines 98-100: the scheme is put in front when missing, trailing slashes
\* are taken off.
with_scheme_rstrip(entry) ==
    IF entry = "uss2.example/" THEN "http://uss2.example" ELSE entry

\* Lines 90-101.  The raw value is the sequence of its entries; the empty
\* sequence is the variable unset or empty.
parse_fallback_uss_urls(raw) ==
    LET kept == SelectSeq([i \in 1..Len(raw) |-> strip(raw[i])], LAMBDA e : e # "")
    IN  [i \in 1..Len(kept) |-> with_scheme_rstrip(kept[i])]

FallbackSettings ==
    {<<>>} \cup {<<a>> : a \in FallbackEntries}
           \cup {<<a, b>> : a \in FallbackEntries, b \in {"", "https://uss1.example"}}

\* get_cached_credentials as its caller sees it: a body with access_token,
\* a body with an error field and no access_token, a body with neither, an
\* exception.
TokenOutcomes == {"credentials", "error", "bare", "raise"}

HasAccessToken(token) == token = "credentials"
ErrorField(token) == token = "error"

\* An assert statement fails only when the interpreter runs without -O.
AssertFails(env, condition) == env.assertions /\ ~condition

DssResponse(status, body) == [kind |-> "http", status |-> status, body |-> body]
DssTransportError == [kind |-> "raise", status |-> 0, body |-> "none"]

\* The answers to a PUT: 200 with the body of the API, 200 with a body
\* that lacks the members read, a rejection with an error body, no answer.
PutOutcomes ==
    {DssResponse(200, "ok"), DssResponse(200, "malformed"),
     DssResponse(403, "error"), DssTransportError}

\* The answers to a notification POST.
PostOutcomes ==
    {DssResponse(204, "none"), DssResponse(200, "ok"), DssResponse(500, "error"),
     DssTransportError}

\* Subscriber URLs as tldextract splits them.
SubscriberUrl(subdomain, domain, suffix) ==
    [subdomain |-> subdomain, domain |-> domain, suffix |-> suffix]

SubscriberUrls ==
    {SubscriberUrl("host.docker", "internal", ""), SubscriberUrl("rid", "uss1", "example")}

SubscriberLists == UNION {[1..n -> SubscriberUrls] : n \in 0..MaxSubscribers}

\* Lines 326-339 (tldextract itself is taken not to raise).
uss_audience(url) ==
    IF url.domain \in {"localhost", "internal", "localutm"}
        THEN <<"localhost">>
    ELSE <<url.subdomain, url.domain, url.suffix>>

ServiceArea(id, uss_base_url, owner) ==
    [id |-> id, uss_base_url |-> uss_base_url, owner |-> owner]

NoServiceArea == ServiceArea(0, "", "")

SubscriptionResponse(created, dss_subscription_id, notification_index) ==
    [created |-> created, dss_subscription_id |-> dss_subscription_id,
     notification_index |-> notification_index, service_area |-> NoServiceArea,
     subscribers |-> <<>>]

ISACreationResponse(created, service_area, subscribers) ==
    [created |-> created, dss_subscription_id |-> 0, notification_index |-> 0,
     service_area |-> service_area, subscribers |-> subscribers]

EmptySubscriptionResponse == SubscriptionResponse(FALSE, 0, 0)
EmptyISAResponse == ISACreationResponse(FALSE, NoServiceArea, <<>>)

DReturn(value) == [kind |-> "return", exc |-> "", value |-> value]
DRaise(exc) == [kind |-> "raise", exc |-> exc, value |-> EmptySubscriptionResponse]
NoOutcome == [kind |-> "none", exc |-> "", value |-> EmptySubscriptionResponse]

\* create_rid_subscription_record: the record as the writer is given it.
SubscriptionRecord(record_id, subscription_id, is_simulated, owner, service_areas) ==
    [record_id |-> record_id, subscription_id |-> subscription_id,
     is_simulated |-> is_simulated, owner |-> owner, service_areas |-> service_areas]

EmptyStore == [uuids |-> 0, markers |-> {}, records |-> <<>>, calls |-> 0]

uuid4(store) == store.uuids + 1
Drawn(store, n) == [store EXCEPT !.uuids = store.uuids + n]

create_rid_subscription_record(store, record) ==
    [store EXCEPT !.records = Append(store.records, record)]

\* Lines 362-365: self.r.set(isa_key, 1), then self.r.expire.
StoreMarker(store, id, ttl_s) ==
    [store EXCEPT !.markers =
        {m \in store.markers : m.id # id} \cup {[id |-> id, ttl |-> ttl_s]}]

\* _fallback_subscription without its database write (lines 559-572).
_fallback_subscription_unrecorded(store, env, request_uuid, is_simulated) ==
    LET fallback_urls == parse_fallback_uss_urls(env.fallback)
        n == Len(fallback_urls)
    IN  IF n = 0
        THEN [store |-> store, response |-> EmptySubscriptionResponse]
        ELSE [store |-> Drawn(store, n + 1),
              response |-> SubscriptionResponse(TRUE, uuid4(store), 0)]

\* Lines 518-578.  Gives the store after the call and the response.
_fallback_subscription(store, env, request_uuid, is_simulated) ==
    LET fallback_urls == parse_fallback_uss_urls(env.fallback)
        n == Len(fallback_urls)
        subscription_id == uuid4(store)
        service_areas ==
            [i \in 1..n |-> ServiceArea(subscription_id + i, fallback_urls[i], "fallback")]
    IN  IF n = 0
        THEN [store |-> store, response |-> EmptySubscriptionResponse]
        ELSE [store |-> create_rid_subscription_record(Drawn(store, n + 1),
                            SubscriptionRecord(request_uuid, subscription_id, TRUE,
                                               "fallback", service_areas)),
              response |-> SubscriptionResponse(TRUE, subscription_id, 0)]

RequestUuids == {"r1", "r2"}

\* A call in progress: where it stands, its arguments, the id drawn for
\* it, the PUTs and POSTs it has sent, the token requests it has made, the
\* subscribers the DSS named, and how it ended.
IdleDssCall ==
    [pc |-> "idle", request_uuid |-> "r1", is_simulated |-> FALSE, ttl_s |-> 0,
     new_id |-> 0, puts |-> 0, put |-> DssTransportError, tokens |-> <<>>,
     subscribers |-> <<>>, i |-> 0, posts |-> <<>>, fallback |-> FALSE,
     result |-> NoOutcome]

Ended(call, result) == [call EXCEPT !.pc = "done", !.result = result]

\* Lines 383-424 and 431-434: up to the PUT.
create_dss_subscription_Enter ==
    /\ dsub.pc = "idle" /\ disa.pc = "idle"
    /\ dstore.calls < MaxDssCalls
    /\ \E request_uuid \in RequestUuids, is_simulated \in BOOLEAN, token \in TokenOutcomes :
        LET call == [IdleDssCall EXCEPT !.request_uuid = request_uuid,
                                        !.is_simulated = is_simulated]
            counted == [dstore EXCEPT !.calls = dstore.calls + 1]
            asked == [call EXCEPT !.tokens = <<token>>]
        IN  IF AssertFails(denv, denv.audience # "")
            THEN /\ dsub' = Ended(call, DReturn(EmptySubscriptionResponse))
                 /\ dstore' = counted
            ELSE IF token = "raise"
            THEN /\ dsub' = Ended(asked, DReturn(EmptySubscriptionResponse))
                 /\ dstore' = counted
            ELSE IF AssertFails(denv, ~ErrorField(token))
            THEN /\ dsub' = Ended(asked, DReturn(EmptySubscriptionResponse))
                 /\ dstore' = counted
            ELSE IF ~HasAccessToken(token)
            THEN /\ dsub' = Ended([asked EXCEPT !.new_id = uuid4(counted)], DRaise("KeyError"))
                 /\ dstore' = Drawn(counted, 1)
            ELSE /\ dsub' = [asked EXCEPT !.pc = "put", !.new_id = uuid4(counted),
                                          !.puts = 1]
                 /\ dstore' = Drawn(counted, 1)
    /\ UNCHANGED <<netVars, jwksVars, gateVars, tokenVars, rtreeVars, clusterVars,
                   denv, disa, dpeer, dtables>>

\* Lines 446-516: the PUT ends.
create_dss_subscription_Put ==
    /\ dsub.pc = "put"
    /\ \E dss_r \in PutOutcomes :
        LET fell == _fallback_subscription(dstore, denv, dsub.request_uuid, dsub.is_simulated)
            sent == [dsub EXCEPT !.put = dss_r]
        IN  IF dss_r.kind = "raise" \/ AssertFails(denv, dss_r.status = 200)
            THEN /\ dsub' = Ended([sent EXCEPT !.fallback = TRUE], DReturn(fell.response))
                 /\ dstore' = fell.store
            ELSE IF dss_r.body # "ok"
            THEN /\ dsub' = Ended(sent, DRaise("KeyError"))
                 /\ dstore' = dstore
            ELSE /\ dsub' = Ended(sent, DReturn(SubscriptionResponse(TRUE, dsub.new_id, 1)))
                 /\ dstore' = create_rid_subscription_record(dstore,
                                  SubscriptionRecord(dsub.request_uuid, dsub.new_id,
                                      dsub.is_simulated, "peer",
                                      <<ServiceArea(dsub.new_id, "https://peer.example", "peer")>>))
    /\ UNCHANGED <<netVars, jwksVars, gateVars, tokenVars, rtreeVars, clusterVars,
                   denv, disa, dpeer, dtables>>

\* Lines 231-264: up to the PUT.
create_dss_isa_Enter ==
    /\ disa.pc = "idle" /\ dsub.pc = "idle"
    /\ dstore.calls < MaxDssCalls
    /\ \E ttl_s \in {30, 60}, token \in TokenOutcomes :
        LET drawn == Drawn([dstore EXCEPT !.calls = dstore.calls + 1], 1)
            call == [IdleDssCall EXCEPT !.ttl_s = ttl_s, !.new_id = uuid4(dstore)]
            asked == [call EXCEPT !.tokens = <<token>>]
        IN  /\ dstore' = drawn
            /\ IF AssertFails(denv, denv.audience # "")
               THEN disa' = Ended(call, DReturn(EmptyISAResponse))
               ELSE IF token = "raise"
               THEN disa' = Ended(asked, DReturn(EmptyISAResponse))
               ELSE IF AssertFails(denv, ~ErrorField(token))
               THEN disa' = Ended(asked, DReturn(EmptyISAResponse))
               ELSE IF ~HasAccessToken(token)
               THEN disa' = Ended(asked, DRaise("KeyError"))
               ELSE disa' = [asked EXCEPT !.pc = "put", !.puts = 1]
    /\ UNCHANGED <<netVars, jwksVars, gateVars, tokenVars, rtreeVars, clusterVars,
                   denv, dsub, dpeer, dtables>>

\* Lines 265-322: the PUT ends and its body is read.
create_dss_isa_Put ==
    /\ disa.pc = "put"
    /\ \E dss_r \in PutOutcomes, subscribers \in SubscriberLists :
        LET sent == [disa EXCEPT !.put = dss_r]
        IN  /\ dss_r.body # "ok" => subscribers = <<>>
            /\ IF dss_r.kind = "raise" \/ AssertFails(denv, dss_r.status = 200)
               THEN disa' = Ended(sent, DReturn(EmptyISAResponse))
               ELSE IF dss_r.body # "ok"
               THEN disa' = Ended(sent, DRaise("KeyError"))
               ELSE disa' = [sent EXCEPT !.pc = "notify", !.subscribers = subscribers,
                                         !.i = 1]
    /\ UNCHANGED <<netVars, jwksVars, gateVars, tokenVars, rtreeVars, clusterVars,
                   denv, dstore, dsub, dpeer, dtables>>

\* Lines 324-358: one turn of the loop over the subscribers.
Notify(call, token, response) ==
    IF token = "raise"
    THEN Ended([call EXCEPT !.tokens = Append(call.tokens, token)], DRaise("Exception"))
    ELSE IF ~HasAccessToken(token)
    THEN Ended([call EXCEPT !.tokens = Append(call.tokens, token)], DRaise("KeyError"))
    ELSE [call EXCEPT !.tokens = Append(call.tokens, token), !.i = call.i + 1,
                      !.posts = Append(call.posts,
                                  [url |-> call.subscribers[call.i],
                                   audience |-> uss_audience(call.subscribers[call.i]),
                                   response |-> response])]

create_dss_isa_Notify ==
    /\ disa.pc = "notify" /\ disa.i <= Len(disa.subscribers)
    /\ \E token \in TokenOutcomes, response \in PostOutcomes :
        /\ ~HasAccessToken(token) => response = DssTransportError
        /\ disa' = Notify(disa, token, response)
    /\ UNCHANGED <<netVars, jwksVars, gateVars, tokenVars, rtreeVars, clusterVars,
                   denv, dstore, dsub, dpeer, dtables>>

\* Lines 360-372: the marker is stored and the response filled in.
create_dss_isa_Finish ==
    /\ disa.pc = "notify" /\ disa.i > Len(disa.subscribers)
    /\ dstore' = StoreMarker(dstore, disa.new_id, disa.ttl_s)
    /\ disa' = Ended(disa, DReturn(ISACreationResponse(TRUE,
                         ServiceArea(disa.new_id, "https://self.example", "self"),
                         disa.subscribers)))
    /\ UNCHANGED <<netVars, jwksVars, gateVars, tokenVars, rtreeVars, clusterVars,
                   denv, dsub, dpeer, dtables>>

\* The caller has the outcome; the coordinator is free for the next call.
DssReturn ==
    /\ disa.pc = "done" \/ dsub.pc = "done"
    /\ disa' = IdleDssCall
    /\ dsub' = IdleDssCall
    /\ UNCHANGED <<netVars, jwksVars, gateVars, tokenVars, rtreeVars, clusterVars,
                   denv, dstore, dpeer, dtables>>

(***************************************************************************)
(* The peer side of the coordinator: delete_dss_subscription,              *)
(* query_uss_for_rid and query_uss_for_rid_details.  The token broker, the *)
(* DSS and the peers are the environment.                                  *)
(***************************************************************************)
MaxPolls == 2

\* The flights of one answer, of a peer or of the display provider.
MaxFlights == 2

FlightIds == {"f1", "f2"}

\* A flight entry of a peer's answer: its id, the keys the entry has, and
\* the keys of current_state.position.
PeerFlight(id, keys, position) == [id |-> id, keys |-> keys, position |-> position]

ApiKeys == {"id", "aircraft_type", "simulated", "current_state"}

PeerFlights ==
    {PeerFlight(id, ApiKeys, {"lat", "lng", "alt"}) : id \in FlightIds}
        \cup {PeerFlight(id, ApiKeys \ {"current_state"}, {}) : id \in FlightIds}
        \cup {PeerFlight(id, ApiKeys, {"lat", "lng"}) : id \in FlightIds}
        \cup {PeerFlight("f1", ApiKeys \cup {"url"}, {"lat", "lng"}),
              PeerFlight("f1", ApiKeys \ {"simulated"}, {"lat", "lng", "alt"}),
              PeerFlight(NoneVal, ApiKeys \ {"id"}, {"lat", "lng", "alt"})}

\* The answers of the DSS to the DELETE.
DeleteOutcomes ==
    {DssResponse(200, "ok"), DssResponse(204, "none"), DssResponse(404, "error"),
     DssTransportError}

\* The answers of a peer to a GET: 200 with the body of the API, 200 with
\* a body that lacks the member read, a refusal, no answer.
PeerOutcomes ==
    {DssResponse(200, "ok"), DssResponse(200, "malformed"), DssResponse(404, "error"),
     DssTransportError}

\* The flights and details tables.
EmptyTables == [polls |-> 0, details |-> {}, observations |-> EmptyBag]

\* Lines 748-761.
SingleAirtrafficObservation(subscription_id, flight) ==
    [session_id |-> subscription_id, icao_address |-> flight.id,
     traffic_source |-> 11, source_type |-> 1,
     lat_dd |-> "lat", lon_dd |-> "lng", altitude_mm |-> "alt"]

write_flight_observation(tables, single_observation) ==
    [tables EXCEPT !.observations = @ (+) SetToBag({single_observation})]

check_flight_details_exist(tables, flight_id) == flight_id \in tables.details

create_or_update_rid_flight_details(tables, flight_id) ==
    [tables EXCEPT !.details = @ \cup {flight_id}]

PReturn(value) == [kind |-> "return", exc |-> "", value |-> value]
PRaise(exc) == [kind |-> "raise", exc |-> exc, value |-> NoneVal]
Running == [kind |-> "none", exc |-> "", value |-> NoneVal]

\* Lines 612-679.  Gives the tables after the call, whether the GET was
\* sent, and how the call ended.
query_uss_for_rid_details(tables, flight_id, response) ==
    IF check_flight_details_exist(tables, flight_id)
        THEN [tables |-> tables, sent |-> FALSE, result |-> PReturn(NoneVal)]
    ELSE IF response.kind = "raise"
        THEN [tables |-> tables, sent |-> TRUE, result |-> PRaise("RequestException")]
    ELSE IF response.status # 200
        THEN [tables |-> tables, sent |-> TRUE, result |-> PReturn(NoneVal)]
    ELSE IF response.body # "ok"
        THEN [tables |-> tables, sent |-> TRUE, result |-> PRaise("KeyError")]
    ELSE [tables |-> create_or_update_rid_flight_details(tables, flight_id),
          sent |-> TRUE, result |-> PReturn(NoneVal)]

\* Lines 732-772: the body of the loop after the details.
emit_observation(tables, env, subscription_id, flight) ==
    IF AssertFails(env, "current_state" \in flight.keys)
        THEN [tables |-> tables, result |-> PReturn(NoneVal)]
    ELSE IF {"current_state", "simulated", "aircraft_type"} \ flight.keys # {}
        THEN [tables |-> tables, result |-> PRaise("KeyError")]
    ELSE IF {"lat", "lng", "alt"} \subseteq flight.position
        THEN [tables |-> write_flight_observation(tables,
                            SingleAirtrafficObservation(subscription_id, flight)),
              result |-> PReturn(NoneVal)]
    ELSE IF "url" \in flight.keys
        THEN [tables |-> tables, result |-> PReturn(NoneVal)]
    ELSE [tables |-> tables, result |-> PRaise("KeyError")]

\* Lines 721-772: one turn of the loop over the flights.
process_flight(tables, env, subscription_id, flight, response) ==
    IF "id" \notin flight.keys
        THEN [tables |-> tables, sent |-> FALSE, result |-> PRaise("KeyError")]
    ELSE LET details == query_uss_for_rid_details(tables, flight.id, response)
             emitted == emit_observation(details.tables, env, subscription_id, flight)
         IN  IF details.result.kind = "raise"
             THEN details
             ELSE [tables |-> emitted.tables, sent |-> details.sent,
                   result |-> emitted.result]

\* The FlightsRecords a poll is given: the service areas of a record that
\* create_dss_subscription or its fallback persisted.
PollRecords ==
    {<<>>,
     <<ServiceArea(2, "https://uss1.example", "fallback")>>,
     <<ServiceArea(2, "https://uss1.example", "fallback"),
       ServiceArea(3, "http://uss2.example", "fallback")>>}

FlightsGet(url, authorized) == [url |-> url, authorized |-> authorized]

\* A delete or a poll in progress: where it stands, its arguments, the
\* service area and the flight it is at, the number of flights of the
\* answer in hand, the flights GETs sent, the entry just processed with
\* whether its details were asked for, and how the call ended.
IdlePeerCall ==
    [pc |-> "idle", fn |-> "", subscription_id |-> 0, service_areas |-> <<>>,
     i |-> 0, n |-> 0, j |-> 0, gets |-> <<>>,
     flight |-> PeerFlight(NoneVal, {}, {}), sent |-> FALSE, result |-> Running]

PeerEnded(call, result) == [call EXCEPT !.pc = "done", !.result = result]

\* Line 688 and the end of the loop body: on to the next service area, or
\* out of the loop.
NextServiceArea(call) ==
    IF call.i < Len(call.service_areas)
    THEN [call EXCEPT !.pc = "area", !.i = call.i + 1, !.n = 0, !.j = 0]
    ELSE PeerEnded(call, PReturn(NoneVal))

\* Line 720: on to the next flight of the answer, or to the next area.
NextFlight(call) ==
    IF call.j < call.n
    THEN [call EXCEPT !.pc = "flight", !.j = call.j + 1]
    ELSE NextServiceArea(call)

\* Lines 606-609.
delete_rid_subscription_record(store, subscription_id) ==
    [store EXCEPT !.records =
        SelectSeq(store.records, LAMBDA r : r.subscription_id # subscription_id)]

\* Lines 580-610.  Gives the store after the call and how the call ended.
delete_dss_subscription(store, subscription_id, token, dss_r) ==
    IF token = "raise"
        THEN [store |-> store, result |-> PReturn(FALSE)]
    ELSE IF ~HasAccessToken(token)
        THEN [store |-> store, result |-> PRaise("KeyError")]
    ELSE IF dss_r.kind = "raise"
        THEN [store |-> store, result |-> PReturn(FALSE)]
    ELSE IF dss_r.status \notin {200, 204}
        THEN [store |-> store, result |-> PReturn(FALSE)]
    ELSE [store |-> delete_rid_subscription_record(store, subscription_id),
          result |-> PReturn(TRUE)]

\* The id is that of a record, or one that no record carries.
delete_dss_subscription_Call ==
    /\ dpeer.pc = "idle" /\ dsub.pc = "idle" /\ disa.pc = "idle"
    /\ \E subscription_id \in {dstore.records[k].subscription_id : k \in DOMAIN dstore.records}
                                  \cup {uuid4(dstore)},
          token \in TokenOutcomes, dss_r \in DeleteOutcomes :
        LET ended == delete_dss_subscription(dstore, subscription_id, token, dss_r)
        IN  /\ dpeer' = PeerEnded([IdlePeerCall EXCEPT !.fn = "delete_dss_subscription",
                                       !.subscription_id = subscription_id],
                                  ended.result)
            /\ dstore' = ended.store
    /\ UNCHANGED <<netVars, jwksVars, gateVars, tokenVars, rtreeVars, clusterVars,
                   denv, disa, dsub, dtables>>

\* Lines 682-687: the record is parsed, the loop begins.
query_uss_for_rid_Enter ==
    /\ dpeer.pc = "idle" /\ dsub.pc = "idle" /\ disa.pc = "idle"
    /\ dtables.polls < MaxPolls
    /\ \E service_areas \in PollRecords :
        dpeer' = NextServiceArea([IdlePeerCall EXCEPT !.fn = "query_uss_for_rid",
                                      !.subscription_id = 1,
                                      !.service_areas = service_areas])
    /\ dtables' = [dtables EXCEPT !.polls = dtables.polls + 1]
    /\ UNCHANGED <<netVars, jwksVars, gateVars, tokenVars, rtreeVars, clusterVars,
                   denv, dstore, disa, dsub>>

\* Lines 689-719 and 774-780: the token, the flights GET and its answer,
\* which holds n flights when it is a 200 with a flights member.
flights_request_sent(call, token, flights_request, n) ==
    LET sent == [call EXCEPT !.gets =
                    Append(call.gets,
                           FlightsGet(call.service_areas[call.i].uss_base_url,
                                      token # "raise" /\ HasAccessToken(token)))]
    IN  IF flights_request.kind = "raise"
            THEN PeerEnded(sent, PRaise("RequestException"))
        ELSE IF flights_request.status # 200
            THEN NextServiceArea(sent)
        ELSE IF flights_request.body # "ok"
            THEN PeerEnded(sent, PRaise("KeyError"))
        ELSE NextFlight([sent EXCEPT !.n = n])

query_uss_for_rid_Get ==
    /\ dpeer.pc = "area"
    /\ \E token \in TokenOutcomes, flights_request \in PeerOutcomes, n \in 0..MaxFlights :
        dpeer' = flights_request_sent(dpeer, token, flights_request, n)
    /\ UNCHANGED <<netVars, jwksVars, gateVars, tokenVars, rtreeVars, clusterVars,
                   denv, dstore, disa, dsub, dtables>>

\* Lines 720-772: one flight of the answer.
query_uss_for_rid_Flight ==
    /\ dpeer.pc = "flight"
    /\ \E flight \in PeerFlights, response \in PeerOutcomes :
        LET turn == process_flight(dtables, denv, dpeer.subscription_id, flight, response)
            seen == [dpeer EXCEPT !.flight = flight, !.sent = turn.sent]
        IN  /\ dtables' = turn.tables
            /\ dpeer' = IF turn.result.kind = "raise"
                        THEN PeerEnded(seen, turn.result)
                        ELSE NextFlight(seen)
    /\ UNCHANGED <<netVars, jwksVars, gateVars, tokenVars, rtreeVars, clusterVars,
                   denv, dstore, disa, dsub>>

\* The caller has its answer.
PeerReturn ==
    /\ dpeer.pc = "done"
    /\ dpeer' = IdlePeerCall
    /\ UNCHANGED <<netVars, jwksVars, gateVars, tokenVars, rtreeVars, clusterVars,
                   denv, dstore, disa, dsub, dtables>>

(***************************************************************************)
(* The spatial index factories: rtree_geo_fence_helper.py,                 *)
(* flight_declarations_rtree_helper.py and rid_operations/rtree_helper.py. *)
(* An index is the bag of the items inserted into it: rtree keeps two      *)
(* items apart even when id, box and payload are the same.                 *)
(***************************************************************************)
MaxEntries == 3

Factories == {"geo_fence", "flight_declaration", "operational_intent"}

\* float(text) for the coordinates between the commas of `bounds`; -1
\* stands for the ValueError of a text that is no number.
float(text) ==
    CASE text = "0" -> 0 [] text = "1" -> 1 [] text = "2" -> 2 [] text = "3" -> 3
      [] OTHER -> 0 - 1

Entity(id, bounds, start_datetime, end_datetime) ==
    [id |-> id, bounds |-> bounds, start_datetime |-> start_datetime,
     end_datetime |-> end_datetime]

\* The entities handed to a rebuild: two boxes apart from each other, and
\* one whose bounds do not parse.
Entities ==
    {Entity(1, <<"0", "0", "1", "2">>, "t1", "t2"),
     Entity(2, <<"2", "3", "3", "3">>, "t3", "t4"),
     Entity(3, <<"0", "x", "1", "1">>, "t1", "t2")}

EntityLists == UNION {[1..n -> Entities] : n \in 0..2}

Parses(entity) == \A i \in 1..4 : float(entity.bounds[i]) >= 0

\* The box an entity is indexed under.  The geo-fence factory swaps the
\* coordinates to latitude, longitude (line 66).
ViewOf(kind, entity) ==
    LET view == [i \in 1..4 |-> float(entity.bounds[i])]
    IN  IF kind = "geo_fence" THEN <<view[2], view[1], view[4], view[3]>> ELSE view

\* The payload of an entry: the entity's id as a string and its activity
\* window, synthetic (now - 1 day, now + 1 day) unless the factory reads
\* the entity's own start and end.
Metadata(kind, entity) ==
    IF kind = "operational_intent"
    THEN [ref |-> entity.id, start |-> entity.start_datetime, end |-> entity.end_datetime]
    ELSE [ref |-> entity.id, start |-> "now-1d", end |-> "now+1d"]

Item(id, coordinates, obj) == [id |-> id, coordinates |-> coordinates, obj |-> obj]

\* index.Index()
NewIndex == EmptyBag

insert(idx, item) == idx (+) SetToBag({item})

Intersects(a, b) ==
    ~(a[3] < b[1] \/ b[3] < a[1] \/ a[4] < b[2] \/ b[4] < a[2])

\* idx.intersection(box, objects=True), and the payload of each item found.
intersection(idx, box) ==
    BagOfAll(LAMBDA item : item.obj,
             [item \in {e \in DOMAIN idx : Intersects(e.coordinates, box)} |-> idx[item]])

\* The loop of generate_*_index: the entities are inserted one by one under
\* their place in the list, into the index as it stands; an entity whose
\* bounds do not parse ends the loop with ValueError.
RECURSIVE InsertAll(_, _, _, _)
InsertAll(kind, idx, entities, n) ==
    IF n > Len(entities) THEN [idx |-> idx, raised |-> FALSE]
    ELSE IF ~Parses(entities[n]) THEN [idx |-> idx, raised |-> TRUE]
    ELSE InsertAll(kind,
             insert(idx, Item(n - 1, ViewOf(kind, entities[n]), Metadata(kind, entities[n]))),
             entities, n + 1)

generate_index(kind, idx, entities) == InsertAll(kind, idx, entities, 1)

clear_keeps_items(idx) == idx

\* clear_rtree_index: the index is closed as far as it lets itself be
\* closed, and a new one takes its place.
clear_rtree_index(idx) == NewIndex

QueryBoxes == {<<0, 0, 3, 3>>, <<0, 0, 1, 1>>, <<3, 0, 3, 0>>}

\* A factory: its index, and for the properties what was last done to it,
\* with what, what the last query gave, whether anything was inserted since
\* the last clear and how many items that clear removed.
NewFactory(kind) ==
    [kind |-> kind, idx |-> NewIndex, op |-> "init", entities |-> <<>>, raised |-> FALSE,
     hits |-> EmptyBag, cleared |-> FALSE, removed |-> 0]

\* add_box_to_index called by the owner for one entity, as the rebuild
\* loop calls it.
add_box_to_index ==
    /\ BagCardinality(rtree.idx) < MaxEntries
    /\ \E id \in 0..1, entity \in {e \in Entities : Parses(e)} :
        rtree' = [rtree EXCEPT
                    !.idx = insert(@, Item(id, ViewOf(rtree.kind, entity),
                                           Metadata(rtree.kind, entity))),
                    !.op = "insert", !.entities = <<>>, !.raised = FALSE,
                    !.cleared = FALSE, !.removed = 0]
    /\ UNCHANGED <<netVars, jwksVars, gateVars, tokenVars, dssVars, clusterVars>>

\* idx.delete(id, coordinates): one item of that id and box goes, if there
\* is one.
delete_from_index ==
    /\ \E enumerated_id \in 0..1, entity \in {e \in Entities : Parses(e)} :
        LET found == {e \in DOMAIN rtree.idx :
                        /\ e.id = enumerated_id
                        /\ e.coordinates = ViewOf(rtree.kind, entity)}
        IN  \E item \in IF found = {} THEN {NoneVal} ELSE found :
                rtree' = [rtree EXCEPT
                            !.idx = IF found = {} THEN @ ELSE @ (-) SetToBag({item}),
                            !.op = "delete", !.entities = <<>>, !.raised = FALSE]
    /\ UNCHANGED <<netVars, jwksVars, gateVars, tokenVars, dssVars, clusterVars>>

generate_index_Call ==
    /\ \E entities \in EntityLists :
        /\ BagCardinality(rtree.idx) + Len(entities) <= MaxEntries
        /\ LET built == generate_index(rtree.kind, rtree.idx, entities)
           IN  rtree' = [rtree EXCEPT
                           !.idx = built.idx, !.op = "rebuild", !.entities = entities,
                           !.raised = built.raised, !.cleared = FALSE, !.removed = 0]
    /\ UNCHANGED <<netVars, jwksVars, gateVars, tokenVars, dssVars, clusterVars>>

clear_rtree_index_Call ==
    /\ rtree' = [rtree EXCEPT
                    !.idx = clear_rtree_index(@), !.op = "clear", !.entities = <<>>,
                    !.raised = FALSE, !.hits = EmptyBag, !.cleared = TRUE,
                    !.removed = BagCardinality(rtree.idx)]
    /\ UNCHANGED <<netVars, jwksVars, gateVars, tokenVars, dssVars, clusterVars>>

check_box_intersection ==
    /\ \E view_box \in QueryBoxes :
        rtree' = [rtree EXCEPT
                    !.hits = intersection(rtree.idx, view_box), !.op = "query",
                    !.entities = <<>>, !.raised = FALSE]
    /\ UNCHANGED <<netVars, jwksVars, gateVars, tokenVars, dssVars, clusterVars>>

(***************************************************************************)
(* RID cluster obfuscation: RemoteIDOperations.extend_cluster.             *)
(* Coordinates are whole degrees; geod.geometry_length is taken flat, a    *)
(* degree measuring MetersPerDegree metres on both axes.  The inputs are   *)
(* chosen so that every division and square root of the code is exact.     *)
(***************************************************************************)
NetMinObfuscationDistanceM == 300
NetMinClusterSizePercent == 15
MetersPerDegree == 150

geometry_length(a, b) == MetersPerDegree * (IF b >= a THEN b - a ELSE a - b)

Cluster(x_min, x_max, y_min, y_max) ==
    [kind |-> "return", x_min |-> x_min, x_max |-> x_max, y_min |-> y_min, y_max |-> y_max]

ZeroDivisionError ==
    [kind |-> "ZeroDivisionError", x_min |-> 0, x_max |-> 0, y_min |-> 0, y_max |-> 0]

\* math.sqrt on the perfect squares met.
sqrt(n) == CHOOSE r \in 0..n : r * r = n

\* Lines 129-175.
extend_cluster(view_area_sqm, min_x, min_y, max_x, max_y) ==
    LET cluster_width == geometry_length(min_x, max_x)
        cluster_height == geometry_length(min_y, max_y)
        cluster_area == cluster_width * cluster_height
        given == Cluster(min_x, max_x, min_y, max_y)
        dx == NetMinObfuscationDistanceM - cluster_width \div 2
        widened ==
            IF cluster_width < 2 * NetMinObfuscationDistanceM
            THEN Cluster(min_x - dx, max_x + dx, min_y, max_y)
            ELSE given
        dy == NetMinObfuscationDistanceM - cluster_height \div 2
        heightened ==
            IF cluster_height < 2 * NetMinObfuscationDistanceM
            THEN Cluster(min_x, max_x, min_y - dy, max_y + dy)
            ELSE widened
        min_cluster_area == (view_area_sqm * NetMinClusterSizePercent) \div 100
    IN  IF cluster_area < min_cluster_area
        THEN IF cluster_area = 0 THEN ZeroDivisionError
             ELSE Cluster(min_x - (sqrt(min_cluster_area \div cluster_area) * cluster_width) \div 2,
                          max_x + (sqrt(min_cluster_area \div cluster_area) * cluster_width) \div 2,
                          min_y - (sqrt(min_cluster_area \div cluster_area) * cluster_height) \div 2,
                          max_y + (sqrt(min_cluster_area \div cluster_area) * cluster_height) \div 2)
        ELSE heightened

\* The inputs: boxes 0, 2 or 4 degrees wide and high, and view areas that
\* ask for no, 1, 4 or 16 times the area of the box.
ClusterInput(view_area_sqm, min_x, min_y, max_x, max_y) ==
    [view_area_sqm |-> view_area_sqm, min_x |-> min_x, min_y |-> min_y,
     max_x |-> max_x, max_y |-> max_y]

ViewAreasFor(cluster_area) ==
    IF cluster_area = 0 THEN {0, 600000}
    ELSE {(k * k * cluster_area * 100) \div NetMinClusterSizePercent : k \in {0, 1, 2, 4}}

ClusterInputs ==
    UNION {{ClusterInput(v, x, y, x + dx, y + dy) :
              v \in ViewAreasFor(geometry_length(0, dx) * geometry_length(0, dy))} :
           x \in {0, 10}, y \in {0, 10}, dx \in {0, 2, 4}, dy \in {0, 2, 4}}

Point(x, y) == <<x, y>>

ClusterPosition(lat, lng) == [lat |-> lat, lng |-> lng]

box(minx, miny, maxx, maxy) == [bounds |-> <<minx, miny, maxx, maxy>>]

compute_polygon_area(polygon) ==
    geometry_length(polygon.bounds[1], polygon.bounds[3])
        * geometry_length(polygon.bounds[2], polygon.bounds[4])

min(a, b) == IF b < a THEN b ELSE a

max(a, b) == IF b > a THEN b ELSE a

RECURSIVE BoundsOver(_, _, _)
BoundsOver(all_positions, i, acc) ==
    IF i > Len(all_positions) THEN acc
    ELSE BoundsOver(all_positions, i + 1,
                    [min_x |-> min(acc.min_x, all_positions[i][1]),
                     min_y |-> min(acc.min_y, all_positions[i][2]),
                     max_x |-> max(acc.max_x, all_positions[i][1]),
                     max_y |-> max(acc.max_y, all_positions[i][2])])

ClusterDetailLatLngSwapped(extended_cluster, area_sqm, number_of_flights) ==
    [corners |-> <<ClusterPosition(extended_cluster.x_min, extended_cluster.y_min),
                   ClusterPosition(extended_cluster.x_max, extended_cluster.y_max)>>,
     area_sqm |-> area_sqm,
     number_of_flights |-> number_of_flights]

ClusterDetail(extended_cluster, area_sqm, number_of_flights) ==
    [corners |-> <<ClusterPosition(extended_cluster.y_min, extended_cluster.x_min),
                   ClusterPosition(extended_cluster.y_max, extended_cluster.x_max)>>,
     area_sqm |-> area_sqm,
     number_of_flights |-> number_of_flights]

generate_cluster_details(rid_flights, view_box) ==
    LET view_min_point == Point(view_box.bounds[1], view_box.bounds[2])
        view_max_point == Point(view_box.bounds[3], view_box.bounds[4])
        all_positions ==
            <<view_min_point, view_max_point>>
                \o [i \in 1..Len(rid_flights) |->
                      Point(rid_flights[i].most_recent_position.lat,
                            rid_flights[i].most_recent_position.lng)]
        b == BoundsOver(all_positions, 2,
                        [min_x |-> all_positions[1][1], min_y |-> all_positions[1][2],
                         max_x |-> all_positions[1][1], max_y |-> all_positions[1][2]])
        bounding_box_area_sq_meters == compute_polygon_area(view_box)
        extended_cluster == extend_cluster(bounding_box_area_sq_meters,
                                           b.min_x, b.min_y, b.max_x, b.max_y)
    IN  IF extended_cluster.kind # "return" THEN extended_cluster
        ELSE [kind |-> "return",
              cluster_details |->
                  <<ClusterDetail(extended_cluster, bounding_box_area_sq_meters,
                                  Len(rid_flights))>>]

RIDFlight(lat, lng) == [most_recent_position |-> [lat |-> lat, lng |-> lng]]

FlightPositions == {RIDFlight(0, 0), RIDFlight(1, 3), RIDFlight(8, 2), RIDFlight(5, 12)}

RidFlightLists == UNION {[1..n -> FlightPositions] : n \in 0..MaxFlights}

ViewBoxes == {box(0, 0, 0, 0), box(0, 0, 2, 2), box(0, 0, 4, 6), box(1, 1, 5, 3),
              box(2, 0, 2, 9), box(0, 0, 10, 10)}

NoClusterCall ==
    [pc |-> "idle", fn |-> "", input |-> ClusterInput(0, 0, 0, 0, 0),
     rid_flights |-> <<>>, view_box |-> box(0, 0, 0, 0),
     out |-> Cluster(0, 0, 0, 0)]

generate_cluster_details_Call ==
    /\ cluster.pc = "called"
    /\ cluster.fn = "generate_cluster_details"
    /\ cluster' = [cluster EXCEPT
                     !.pc = "returned",
                     !.out = generate_cluster_details(cluster.rid_flights, cluster.view_box)]
    /\ UNCHANGED <<netVars, jwksVars, gateVars, tokenVars, dssVars, rtreeVars>>

extend_cluster_Call ==
    /\ cluster.pc = "called"
    /\ cluster.fn = "extend_cluster"
    /\ cluster' = [cluster EXCEPT
                     !.pc = "returned",
                     !.out = extend_cluster(cluster.input.view_area_sqm,
                                            cluster.input.min_x, cluster.input.min_y,
                                            cluster.input.max_x, cluster.input.max_y)]
    /\ UNCHANGED <<netVars, jwksVars, gateVars, tokenVars, dssVars, rtreeVars>>

(***************************************************************************)
(* The specifications.  Each one starts the other subsystems idle and      *)
(* leaves them so.                                                         *)
(***************************************************************************)
NetIdle ==
    /\ dns = [n \in Names |-> DnsAnswer(FALSE, {})]
    /\ vcall = NoCall
    /\ fetch = NoFetch
    /\ gets = <<>>

CacheEmpty ==
    /\ jclock = 0
    /\ JWKS_CACHE = [u \in JwksUrls |-> NoEntry]
    /\ _JWKS_CACHE_LOCK = Unlocked
    /\ jw = [p \in Callers |-> IdleCaller]
    /\ jret = [p \in Callers |-> NoAnswer]

JwksIdle ==
    /\ jcfg = StandardConfig
    /\ CacheEmpty

TokenIdle ==
    /\ tenv = [url_is_local |-> FALSE]
    /\ tclock = 1
    /\ redis = [k \in CacheKeys |-> Absent]
    /\ getter = [w \in TokenWorkers |-> [now |-> Instants[1]]]
    /\ tw = [w \in TokenWorkers |-> IdleWorker]
    /\ tlog = [k \in CacheKeys |-> NoLog]

GateIdle ==
    /\ genv = [BYPASS_AUTH_TOKEN_VERIFICATION |-> 0, IS_DEBUG |-> 0]
    /\ greq = NoRequest

NoDssCalls ==
    /\ dstore = EmptyStore
    /\ disa = IdleDssCall
    /\ dsub = IdleDssCall
    /\ dpeer = IdlePeerCall
    /\ dtables = EmptyTables

DssIdle ==
    /\ denv = [assertions |-> TRUE, audience |-> "000", fallback |-> <<>>]
    /\ NoDssCalls

RtreeIdle == rtree = NewFactory("geo_fence")

ClusterIdle == cluster = NoClusterCall

\* The validator on its own: any URL, any flags, any resolver state.
InitUrl ==
    /\ DssIdle /\ RtreeIdle /\ ClusterIdle
    /\ dns \in Resolvers
    /\ vcall = NoCall
    /\ fetch = NoFetch
    /\ gets = <<>>
    /\ JwksIdle /\ GateIdle /\ TokenIdle

NextUrl == DnsChange \/ Validate

SpecUrl == InitUrl /\ [][NextUrl]_vars

\* The two fetchers, one call at a time, while the resolver changes.
InitFetch ==
    /\ DssIdle /\ RtreeIdle /\ ClusterIdle
    /\ dns \in Resolvers
    /\ vcall = NoCall
    /\ fetch = NoFetch
    /\ gets = <<>>
    /\ JwksIdle /\ GateIdle /\ TokenIdle

NextFetch ==
    \/ DnsChange
    \/ fetch_json_url_Enter
    \/ fetch_json_url_Hop
    \/ _fetch_geozone_json_Enter
    \/ _fetch_geozone_json_Hop
    \/ download_geozone_source_Enter
    \/ download_geozone_source_Report
    \/ FetchReturn

SpecFetch == InitFetch /\ [][NextFetch]_vars

\* The same calls, where a call in its loop goes on to its next pass.
SpecFetchFair ==
    /\ InitFetch /\ [][NextFetch]_vars
    /\ WF_vars(fetch_json_url_Hop) /\ WF_vars(_fetch_geozone_json_Hop)

\* Concurrent callers of one JWKS URL, under the default shape of
\* configuration.
InitJwks ==
    /\ DssIdle /\ RtreeIdle /\ ClusterIdle
    /\ NetIdle /\ JwksIdle /\ GateIdle /\ TokenIdle

NextJwks ==
    \/ JwksTick
    \/ \E p \in Callers : JwksCall(p, "passport") /\ jw'[p].required
    \/ \E p \in Callers : JwksCheck(p)
    \/ \E p \in Callers : JwksFetched(p)
    \/ \E p \in Callers : JwksPublish(p)

SpecJwks == InitJwks /\ [][NextJwks]_vars

\* One caller at a time, under every shape of configuration.
InitJwksSeq ==
    /\ DssIdle /\ RtreeIdle /\ ClusterIdle
    /\ NetIdle /\ GateIdle /\ TokenIdle
    /\ jcfg \in JwksConfigs
    /\ CacheEmpty

NextJwksSeq ==
    \/ JwksTick
    \/ JwksCall("w1", "passport")
    \/ JwksCheck("w1")
    \/ JwksFetched("w1")
    \/ JwksPublish("w1")

SpecJwksSeq == InitJwksSeq /\ [][NextJwksSeq]_vars

\* Concurrent callers of one JWKS URL under every shape of configuration;
\* the endpoint answers with one key set or fails.
RotatedKeys == KeySet({Jwk("k1", TRUE), Jwk("k2", TRUE)})

InitJwksConfigs ==
    /\ DssIdle /\ RtreeIdle /\ ClusterIdle
    /\ NetIdle /\ GateIdle /\ TokenIdle
    /\ jcfg \in JwksConfigs
    /\ CacheEmpty

NextJwksConfigs ==
    \/ JwksTick
    \/ \E p \in Callers : JwksCall(p, "passport") /\ jw'[p].required
    \/ \E p \in Callers : JwksCheck(p)
    \/ \E p \in Callers : JwksFetched(p) /\ jw'[p].outcome \in {FetchFailed, RotatedKeys}
    \/ \E p \in Callers : JwksPublish(p)

SpecJwksConfigs == InitJwksConfigs /\ [][NextJwksConfigs]_vars

\* Concurrent callers of both JWKS URLs, with the taking of
\* _JWKS_CACHE_LOCK as a step of its own.
InitJwksLock ==
    /\ DssIdle /\ RtreeIdle /\ ClusterIdle
    /\ NetIdle /\ JwksIdle /\ GateIdle /\ TokenIdle

NextJwksLock ==
    \/ \E p \in Callers, url \in JwksUrls : JwksCall(p, url)
    \/ \E p \in Callers : JwksAcquire(p)
    \/ \E p \in Callers : JwksCheckLocked(p)
    \/ \E p \in Callers : JwksFetched(p) /\ jw'[p].outcome \in {FetchFailed, RotatedKeys}
    \/ \E p \in Callers : JwksPublishLocked(p)

SpecJwksLock == InitJwksLock /\ [][NextJwksLock]_vars

\* An outage and its end: the endpoint fails until the first tick of the
\* clock and serves its key set from then on.  Callers keep calling without
\* force_refresh, the clock keeps running, and no caller stops midway.
EndpointAnswer == IF jclock = 0 THEN FetchFailed ELSE RotatedKeys

InitJwksRecovery ==
    /\ DssIdle /\ RtreeIdle /\ ClusterIdle
    /\ NetIdle /\ GateIdle /\ TokenIdle
    /\ jcfg \in JwksConfigs
    /\ CacheEmpty

NonForcedCall(p) == JwksCall(p, "passport") /\ ~jw'[p].force_refresh

EndpointAnswers(p) == JwksFetched(p) /\ jw'[p].outcome = EndpointAnswer

NextJwksRecovery ==
    \/ JwksTick
    \/ \E p \in Callers : NonForcedCall(p)
    \/ \E p \in Callers : JwksCheck(p)
    \/ \E p \in Callers : EndpointAnswers(p)
    \/ \E p \in Callers : JwksPublish(p)

SpecJwksRecovery ==
    /\ InitJwksRecovery /\ [][NextJwksRecovery]_vars
    /\ WF_vars(JwksTick)
    /\ \A p \in Callers :
        /\ WF_vars(NonForcedCall(p))
        /\ WF_vars(JwksCheck(p))
        /\ WF_vars(EndpointAnswers(p))
        /\ WF_vars(JwksPublish(p))

\* Requests through the gate, one at a time, under every setting of
\* BYPASS_AUTH_TOKEN_VERIFICATION and IS_DEBUG.
InitGate ==
    /\ DssIdle /\ RtreeIdle /\ ClusterIdle
    /\ NetIdle /\ TokenIdle
    /\ jcfg = GateConfig
    /\ CacheEmpty
    /\ genv \in [BYPASS_AUTH_TOKEN_VERIFICATION : {0, 1}, IS_DEBUG : {0, 1}]
    /\ greq = NoRequest

NextGate == JwksTick \/ RequestArrives \/ RequestVerified \/ RequestAnswered

SpecGate == InitGate /\ [][NextGate]_vars

\* The same with the bypass off and the tokens of KidTokens: every request
\* takes lines 177-239.
InitGateVerified ==
    /\ InitGate
    /\ genv.BYPASS_AUTH_TOKEN_VERIFICATION = 0 /\ genv.IS_DEBUG = 0

NextGateVerified ==
    JwksTick \/ RequestArrivesWithKid \/ RequestVerified \/ RequestAnswered

SpecGateVerified == InitGateVerified /\ [][NextGateVerified]_vars

\* The token broker, one call at a time; the getter is constructed anew
\* or reused between calls.
InitToken ==
    /\ DssIdle /\ RtreeIdle /\ ClusterIdle
    /\ NetIdle /\ JwksIdle /\ GateIdle
    /\ tenv \in [url_is_local : BOOLEAN]
    /\ tclock = 1
    /\ redis = [k \in CacheKeys |-> Absent]
    /\ getter = [w \in TokenWorkers |-> [now |-> Instants[1]]]
    /\ tw = [w \in TokenWorkers |-> IdleWorker]
    /\ tlog = [k \in CacheKeys |-> NoLog]

NextToken ==
    \/ TokenTick
    \/ Construct("a")
    \/ get_cached_credentials_Read("a")
    \/ get_cached_credentials_Request("a")
    \/ _cache_credentials_Set("a")
    \/ _cache_credentials_Expire("a")
    \/ TokenReturn("a")

SpecToken == InitToken /\ [][NextToken]_vars

\* Two workers, each with a getter of its own made at another time, whose
\* token requests are answered with credentials.
InitTokenPair ==
    /\ DssIdle /\ RtreeIdle /\ ClusterIdle
    /\ NetIdle /\ JwksIdle /\ GateIdle
    /\ tenv = [url_is_local |-> FALSE]
    /\ tclock = 3
    /\ redis = [k \in CacheKeys |-> Absent]
    /\ getter = [w \in TokenWorkers |->
                   [now |-> IF w = "a" THEN Instants[1] ELSE Instants[3]]]
    /\ tw = [w \in TokenWorkers |-> IdleWorker]
    /\ tlog = [k \in CacheKeys |-> NoLog]

NextTokenPair ==
    \/ TokenTick
    \/ \E w \in TokenWorkers :
         get_cached_credentials_Read(w) /\ tw'[w].token_type \in {"rid", "scd"}
    \/ \E w \in TokenWorkers :
         get_cached_credentials_Request(w) /\ tw'[w].credentials.kind = "credentials"
    \/ \E w \in TokenWorkers : _cache_credentials_Set(w)
    \/ \E w \in TokenWorkers : _cache_credentials_Expire(w)
    \/ \E w \in TokenWorkers : TokenReturn(w)

SpecTokenPair == InitTokenPair /\ [][NextTokenPair]_vars

\* The coordinator, one call at a time, with and without python -O,
\* with DSS_SELF_AUDIENCE empty or not, under every RID_FALLBACK_USS_URLS.
InitDss ==
    /\ NetIdle /\ JwksIdle /\ GateIdle /\ TokenIdle /\ RtreeIdle /\ ClusterIdle
    /\ denv \in [assertions : BOOLEAN, audience : {"", "000"}, fallback : FallbackSettings]
    /\ NoDssCalls

NextDss ==
    \/ create_dss_subscription_Enter
    \/ create_dss_subscription_Put
    \/ create_dss_isa_Enter
    \/ create_dss_isa_Put
    \/ create_dss_isa_Notify
    \/ create_dss_isa_Finish
    \/ DssReturn

SpecDss == InitDss /\ [][NextDss]_vars

\* One factory of each kind, with the calls its owner can make.
InitRtree ==
    /\ NetIdle /\ JwksIdle /\ GateIdle /\ TokenIdle /\ DssIdle /\ ClusterIdle
    /\ rtree \in {NewFactory(kind) : kind \in Factories}

NextRtree ==
    \/ add_box_to_index
    \/ delete_from_index
    \/ generate_index_Call
    \/ clear_rtree_index_Call
    \/ check_box_intersection

SpecRtree == InitRtree /\ [][NextRtree]_vars

\* extend_cluster on every input of ClusterInputs.
InitCluster ==
    /\ NetIdle /\ JwksIdle /\ GateIdle /\ TokenIdle /\ DssIdle /\ RtreeIdle
    /\ cluster \in {[NoClusterCall EXCEPT !.pc = "called", !.fn = "extend_cluster",
                                           !.input = input] :
                      input \in ClusterInputs}
                 \cup {[NoClusterCall EXCEPT !.pc = "called",
                                            !.fn = "generate_cluster_details",
                                            !.rid_flights = rid_flights,
                                            !.view_box = view_box] :
                         rid_flights \in RidFlightLists, view_box \in ViewBoxes}

NextCluster == extend_cluster_Call \/ generate_cluster_details_Call

SpecCluster == InitCluster /\ [][NextCluster]_vars

(***************************************************************************)
(* The claims.                                                             *)
(***************************************************************************)
\* C5: ok = true (reason "") only for a URL that is not localhost, has no
\* username or password, whose address-literal host is allowed, and
\* whose resolution succeeded, is non-empty and holds only allowed
\* addresses.  As the claim states it, for a URL that carries any userinfo.
C5_OkOnlyIfAllRulesHold_Original ==
    (vcall.done /\ vcall.result.kind = "return" /\ vcall.result.ok) =>
        LET url == vcall.url
            answer == _resolved_ips(url.host, dns)
        IN  /\ vcall.result.reason = ""
            /\ url.parse = "ok" /\ url.host # NoneVal
            /\ url.host # "localhost"
            /\ url.username = NoneVal /\ url.password = NoneVal
            /\ ~(_looks_like_ip(url.host) /\ _is_disallowed_ip(url.host))
            /\ answer.ok /\ answer.ips # {}
            /\ \A ip \in answer.ips : ~_is_disallowed_ip(ip)

\* C5 as amended: the same, for a URL whose username and password are both
\* absent or empty.
C5_OkOnlyIfAllRulesHold ==
    (vcall.done /\ vcall.result.kind = "return" /\ vcall.result.ok) =>
        LET url == vcall.url
            answer == _resolved_ips(url.host, dns)
        IN  /\ vcall.result.reason = ""
            /\ url.parse = "ok" /\ url.host # NoneVal
            /\ url.host # "localhost"
            /\ url.username \in {NoneVal, ""} /\ url.password \in {NoneVal, ""}
            /\ ~(_looks_like_ip(url.host) /\ _is_disallowed_ip(url.host))
            /\ answer.ok /\ answer.ips # {}
            /\ \A ip \in answer.ips : ~_is_disallowed_ip(ip)

\* A name that resolves to several addresses, one of them disallowed, was
\* rejected for that address alone.
C5_Witness ==
    /\ vcall.done /\ vcall.url.host \in Names
    /\ dns[vcall.url.host] = DnsAnswer(TRUE, {PublicIp, PrivateIp})
    /\ vcall.result = Return(FALSE, "resolved_ip_not_allowed")

(***************************************************************************)
(* C6.  Redirect re-vetting, in fetch_json_url and in _fetch_geozone_json: *)
(* every GET went to a URL that the fetch's validate_public_url call had   *)
(* just passed, none was sent after a URL of the fetch had been rejected,  *)
(* and a rejection ends the fetch.                                         *)
(***************************************************************************)
C6_EveryGetIsVetted ==
    /\ \A i \in DOMAIN gets : gets[i].vetted /\ ~gets[i].afterReject
    /\ fetch.rejected => fetch.pc = "done"
    /\ (fetch.rejected /\ fetch.hop = 0) => Len(gets) <= 1
    /\ Len(gets) <= fetch.hop + 1

\* A redirect to the loopback address is rejected after one GET, and no
\* GET has gone to that address.
C6_Witness ==
    /\ fetch.pc = "done" /\ fetch.rejected
    /\ fetch.current_url = LoopbackUrl /\ fetch.url # LoopbackUrl
    /\ Len(gets) = 1 /\ gets[1].url = fetch.url /\ gets[1].vetted

(***************************************************************************)
(* C7.  A finished fetch_json_url call has given None or a JSON object,    *)
(* never another outcome.  The source lets a ValueError out of the call:   *)
(* urlparse(...).port in validate_public_url and urljoin on the Location   *)
(* header both raise outside every try block.                              *)
(***************************************************************************)
C7_NoneOrDict ==
    (fetch.fn = "fetch_json_url" /\ fetch.pc = "done") =>
        fetch.result.kind \in {"None", "dict"}

(***************************************************************************)
(* C8.  Stale-on-error.  The step that publishes a failed fetch, on an     *)
(* entry that holds a key set: the caller gets the entry's jwks and        *)
(* public_keys whether required or not, nothing is raised, and the         *)
(* entry's jwks, public_keys and expires_at stay as they were.             *)
(* In the statement as first made a key set is any fetched JSON object; in *)
(* the statement that holds it is an object with at least one member.      *)
(***************************************************************************)
FailedPublishStep(p) ==
    /\ jw[p].pc = "publish" /\ jw[p].outcome = FetchFailed
    /\ jw'[p].pc = "idle"

StaleReturned(p, entry) ==
    /\ jret'[p].answer.kind = "return"
    /\ jret'[p].answer.jwks = entry.jwks
    /\ jret'[p].answer.public_keys = entry.public_keys
    /\ JWKS_CACHE'[jw[p].url].jwks = entry.jwks
    /\ JWKS_CACHE'[jw[p].url].public_keys = entry.public_keys
    /\ JWKS_CACHE'[jw[p].url].expires_at = entry.expires_at

C8_StaleOnError_Original ==
    [][\A p \in Callers :
        (FailedPublishStep(p) /\ JWKS_CACHE[jw[p].url].jwks.kind = "object") =>
            StaleReturned(p, JWKS_CACHE[jw[p].url])]_vars

C8_StaleOnError ==
    [][\A p \in Callers :
        (FailedPublishStep(p) /\ JwksTruthy(JWKS_CACHE[jw[p].url].jwks)) =>
            StaleReturned(p, JWKS_CACHE[jw[p].url])]_vars

\* A required call has fetched, failed, and been given the keys of an
\* entry whose TTL has run out.
C8_Witness ==
    \E p \in Callers :
        /\ jret[p].required /\ jret[p].answer.kind = "return" /\ jret[p].answer.fetched
        /\ JwksTruthy(jret[p].answer.jwks)
        /\ JWKS_CACHE[jret[p].url].next_retry_at > 0
        /\ JWKS_CACHE[jret[p].url].jwks = jret[p].answer.jwks
        /\ jclock >= JWKS_CACHE[jret[p].url].expires_at

(***************************************************************************)
(* C9.  Backoff window.  A non-forced call that enters the critical        *)
(* section at a time before the entry's next_retry_at sends no GET: it is  *)
(* answered there, with the cached key set when there is one, otherwise    *)
(* with JwksFetchError when required and with ({}, {}) when not.           *)
(* In the statement as first made a cached key set is any fetched JSON     *)
(* object; in the statement that holds it is an object with at least one   *)
(* member.                                                                 *)
(***************************************************************************)
InBackoffStep(p) ==
    /\ jw[p].pc = "check" /\ jw'[p].pc # "check"
    /\ ~jw[p].force_refresh
    /\ jw[p].now < JWKS_CACHE[jw[p].url].next_retry_at

BackoffAnswer(p, entry, cached) ==
    /\ jw'[p].pc = "idle"
    /\ ~jret'[p].answer.fetched
    /\ IF cached
         THEN /\ jret'[p].answer.kind = "return"
              /\ jret'[p].answer.jwks = entry.jwks
              /\ jret'[p].answer.public_keys = entry.public_keys
         ELSE IF jw[p].required
                THEN jret'[p].answer.kind = "JwksFetchError"
                ELSE /\ jret'[p].answer.kind = "return"
                     /\ jret'[p].answer.jwks = EmptyObject
                     /\ jret'[p].answer.public_keys = {}

C9_BackoffWindow_Original ==
    [][\A p \in Callers :
        InBackoffStep(p) =>
            BackoffAnswer(p, JWKS_CACHE[jw[p].url],
                          JWKS_CACHE[jw[p].url].jwks.kind = "object")]_vars

C9_BackoffWindow ==
    [][\A p \in Callers :
        InBackoffStep(p) =>
            BackoffAnswer(p, JWKS_CACHE[jw[p].url],
                          JwksTruthy(JWKS_CACHE[jw[p].url].jwks))]_vars

\* A required, non-forced call has been refused inside the window without
\* a GET, on an entry that never held a key set.
C9_Witness ==
    \E p \in Callers :
        /\ jret[p].required /\ ~jret[p].force_refresh
        /\ jret[p].answer.kind = "JwksFetchError" /\ ~jret[p].answer.fetched
        /\ JWKS_CACHE[jret[p].url].jwks = NoJwks
        /\ jclock < JWKS_CACHE[jret[p].url].next_retry_at

(***************************************************************************)
(* C10.  Backoff arithmetic.  The step that publishes a failed fetch read  *)
(* at time t on an entry with backoff b sets next_retry_at = t + b and     *)
(* backoff_s = min(2b, ceiling); the step that publishes a success sets    *)
(* expires_at = t + ttl, next_retry_at = 0 and backoff_s = the initial     *)
(* value.  As first stated the ceiling is the configured maximum, ttl the  *)
(* configured TTL and the initial value the configured one; in the         *)
(* statement that holds the ceiling is max(configured maximum, b), ttl is  *)
(* max(TTL, 0) and the initial value is max(configured initial, floor).    *)
(***************************************************************************)
PublishStep(p) == jw[p].pc = "publish" /\ jw'[p].pc = "idle"

BackoffArithmetic(p, ceiling, ttl, initial) ==
    LET t == jw[p].now
        before == JWKS_CACHE[jw[p].url]
        after == JWKS_CACHE'[jw[p].url]
    IN  IF jw[p].outcome = FetchFailed
        THEN /\ after.next_retry_at = t + before.backoff_s
             /\ after.backoff_s = Min(2 * before.backoff_s, ceiling)
        ELSE /\ after.expires_at = t + ttl
             /\ after.next_retry_at = 0
             /\ after.backoff_s = initial

C10_BackoffArithmetic_Original ==
    [][\A p \in Callers :
        PublishStep(p) => BackoffArithmetic(p, jcfg.max, jcfg.ttl, jcfg.initial)]_vars

C10_BackoffArithmetic ==
    [][\A p \in Callers :
        PublishStep(p) =>
            BackoffArithmetic(p, Max(jcfg.max, JWKS_CACHE[jw[p].url].backoff_s),
                              Max(jcfg.ttl, 0), Max(jcfg.initial, BackoffFloor))]_vars

\* A run of failures under the usual shape of configuration has doubled the
\* backoff from the initial value up to the maximum, and the last failure
\* was read at the present time.
C10_Witness ==
    \E u \in JwksUrls :
        /\ jcfg = StandardConfig
        /\ JWKS_CACHE[u].backoff_s = jcfg.max
        /\ JWKS_CACHE[u].backoff_s > 2 * jcfg.initial
        /\ JWKS_CACHE[u].next_retry_at = jclock + jcfg.initial * 2

(***************************************************************************)
(* C1.  Token cache hit: once a get_cached_credentials call for a key has  *)
(* missed at call time T, obtained credentials c and written them, every   *)
(* later call for the key made before T + 58 min returns c from the store  *)
(* at once, with no token request and no write.  Stated here for the       *)
(* records whose created_at strptime can parse.  The source compares the   *)
(* record's created_at, which is the writer's self.now, with the reader's  *)
(* self.now; neither is the time of the call.                              *)
(***************************************************************************)
C1_TokenCacheHit ==
    [][\A w \in TokenWorkers :
        (/\ tw[w].pc = "idle" /\ tw'[w].pc # "idle"
         /\ tw'[w].result.kind # "UnboundLocalError"
         /\ tlog[tw'[w].key].miss_at # 0
         /\ redis[tw'[w].key].credentials.kind = "credentials"
         /\ strptime(redis[tw'[w].key].created_at).kind = "datetime"
         /\ Before(Now, PlusMinutes(Instants[tlog[tw'[w].key].miss_at],
                                    TokenLifetimeMin))) =>
            /\ tw'[w].pc = "returned"
            /\ tw'[w].result.kind = "return" /\ tw'[w].result.hit
            /\ tw'[w].result.value = redis[tw'[w].key].credentials
            /\ redis' = redis /\ tlog' = tlog]_vars

(***************************************************************************)
(* C2.  Issuer allowlist on the path that verifies: a token whose          *)
(* signature, exp and aud verify and whose scopes satisfy the policy is    *)
(* answered 401 "Invalid token issuer", without the handler, when its iss  *)
(* is not a configured issuer, and reaches the handler when its iss, less  *)
(* a trailing slash, is one.  The source compares iss with nothing.        *)
(***************************************************************************)
ConfiguredIssuers == {"https://passport.example"}

WithoutTrailingSlash(iss) ==
    IF iss = "https://passport.example/" THEN "https://passport.example" ELSE iss

SignatureExpAudVerify(token) ==
    /\ token.alg = "RS256" /\ token.signed_by = token.kid /\ token.payload_ok
    /\ token.exp = "valid" /\ token.aud = ApiIdentifier

C2_IssuerAllowlist ==
    LET token == greq.token
        response == greq.response
    IN  (/\ response.path = "verified"
         /\ response.verified_with # NoneVal
         /\ SignatureExpAudVerify(token)
         /\ token.iss # NoneVal
         /\ ScopePolicy(greq.view, token.scope)) =>
            IF WithoutTrailingSlash(token.iss) \in ConfiguredIssuers
                THEN response.handler
                ELSE /\ response.status = 401
                     /\ response.detail = "Invalid token issuer"
                     /\ ~response.handler

(***************************************************************************)
(* C3.  Unknown kid: a request whose kid is not among the cached keys      *)
(* force-refreshes both JWKS, and is answered 401 for the unknown kid      *)
(* only if the refreshed keys do not hold the kid either.  The source      *)
(* answers 401 whatever the refreshed keys hold, and does not refresh the  *)
(* DSS keys when the Passport refresh raises.                              *)
(***************************************************************************)
C3_UnknownKidRefresh ==
    LET response == greq.response IN
    (response.path = "verified" /\ response.refreshed # {}) =>
        /\ response.refreshed = {"passport", "dss"}
        /\ response.kid_in_refreshed =>
              ~(response.status = 401
                /\ response.detail = "the signing key id is not present in JWKS")

(***************************************************************************)
(* C4.  Bypass gating: a request whose token header decodes takes          *)
(* handle_bypass_verification exactly when                                 *)
(* BYPASS_AUTH_TOKEN_VERIFICATION and IS_DEBUG are both truthy; under      *)
(* every other setting the handler is invoked only for a token whose       *)
(* signature was verified against the key the JWKS cache holds for its     *)
(* kid.                                                                    *)
(***************************************************************************)
C4_BypassGating ==
    LET token == greq.token
        response == greq.response
        both == IntTruthy(genv.BYPASS_AUTH_TOKEN_VERIFICATION) /\ IntTruthy(genv.IS_DEBUG)
    IN  /\ response.path \in {"bypass", "keys", "verified"} =>
              (response.path = "bypass" <=> both)
        /\ (~both /\ response.handler) =>
              /\ response.path = "verified"
              /\ response.verified_with = token.kid
              /\ token.signed_by = token.kid
              /\ token.kid \in JWKS_CACHE["passport"].public_keys
                               \cup JWKS_CACHE["dss"].public_keys

\* With BYPASS_AUTH_TOKEN_VERIFICATION set and IS_DEBUG false, a token
\* that names a cached kid and is signed with another key is refused by
\* the verification.
C4_Witness ==
    /\ genv.BYPASS_AUTH_TOKEN_VERIFICATION = 1 /\ genv.IS_DEBUG = 0
    /\ greq.token.kid = "k1" /\ greq.token.signed_by = "forged"
    /\ "k1" \in JWKS_CACHE["passport"].public_keys
    /\ greq.response.path = "verified"
    /\ greq.response.status = 401 /\ greq.response.detail = "Invalid token"
    /\ ~greq.response.handler

(***************************************************************************)
(* C11: a fresh key set is served from the cache and a publication is      *)
(* visible to all later readers.  As stated: once a successful fetch has   *)
(* published a non-empty key set at time t, every non-forced call that     *)
(* starts afterwards at a time earlier than t + TTL returns the most       *)
(* recently published key set without a network request, under every       *)
(* interleaving.  jw[p].seen is the publication in force when the call of  *)
(* p started (line 51); the call takes the lock later (line 52), and a     *)
(* successful publication of another caller may land in between: one that  *)
(* publishes the empty object, or one whose clock reading (line 86) is     *)
(* older than t, so that expires_at is set back.  What holds under every   *)
(* interleaving is the statement on the entry found under the lock: a      *)
(* non-forced call that finds a non-empty key set and started earlier than *)
(* the entry's expires_at returns that key set without a request and       *)
(* leaves the entry as it is, and a failure publication changes neither    *)
(* the key set nor its expiry.                                             *)
(***************************************************************************)
CheckStep(p) == jw[p].pc = "check" /\ jw'[p].pc # "check"

ServedFromCache(p, entry) ==
    /\ jw'[p].pc = "idle"
    /\ jret'[p].answer = JReturn(entry.jwks, entry.public_keys, FALSE)
    /\ JWKS_CACHE'[jw[p].url] = entry

C11_FreshFromCache_Original ==
    [][\A p \in Callers :
        (/\ CheckStep(p) /\ ~jw[p].force_refresh
         /\ JwksTruthy(jw[p].seen.jwks)
         /\ jw[p].now < jw[p].seen.expires_at) =>
            /\ JwksTruthy(JWKS_CACHE[jw[p].url].jwks)
            /\ ServedFromCache(p, JWKS_CACHE[jw[p].url])]_vars

C11_FreshFromCache ==
    [][\A p \in Callers :
        /\ (/\ CheckStep(p) /\ ~jw[p].force_refresh
            /\ JwksTruthy(JWKS_CACHE[jw[p].url].jwks)
            /\ jw[p].now < JWKS_CACHE[jw[p].url].expires_at) =>
               ServedFromCache(p, JWKS_CACHE[jw[p].url])
        /\ FailedPublishStep(p) =>
               /\ JWKS_CACHE'[jw[p].url].jwks = JWKS_CACHE[jw[p].url].jwks
               /\ JWKS_CACHE'[jw[p].url].public_keys = JWKS_CACHE[jw[p].url].public_keys
               /\ JWKS_CACHE'[jw[p].url].expires_at = JWKS_CACHE[jw[p].url].expires_at]_vars

\* A non-forced call has been served the fresh key set from the cache
\* after another caller's failure published a backoff, while the other
\* caller is fetching again.
C11_Witness ==
    \E p, q \in Callers :
        /\ p # q /\ jw[p].pc = "idle" /\ jw[q].pc = "fetch"
        /\ ~jret[p].force_refresh
        /\ jret[p].answer.kind = "return" /\ ~jret[p].answer.fetched
        /\ JwksTruthy(jret[p].answer.jwks)
        /\ JWKS_CACHE[jret[p].url].jwks = jret[p].answer.jwks
        /\ JWKS_CACHE[jret[p].url].next_retry_at > 0
        /\ jclock < JWKS_CACHE[jret[p].url].expires_at

(***************************************************************************)
(* C12: force_refresh bypasses both guards.  A call with force_refresh     *)
(* true always goes on to the network fetch, whatever the entry holds      *)
(* (fresh key set, backoff window); when the fetch succeeds the caller is  *)
(* given the new document and its keys, and the entry holds them with      *)
(* next_retry_at 0 and backoff_s back at max(initial, 0.1).                *)
(***************************************************************************)
C12_ForceRefresh ==
    [][\A p \in Callers :
        /\ (CheckStep(p) /\ jw[p].force_refresh) =>
              /\ jw'[p].pc = "fetch"
              /\ jret'[p] = jret[p]
        /\ (PublishStep(p) /\ jw[p].force_refresh /\ jw[p].outcome # FetchFailed) =>
              /\ jret'[p].answer =
                    JReturn(jw[p].outcome, _build_public_keys(jw[p].outcome), TRUE)
              /\ JWKS_CACHE'[jw[p].url].jwks = jw[p].outcome
              /\ JWKS_CACHE'[jw[p].url].public_keys = _build_public_keys(jw[p].outcome)
              /\ JWKS_CACHE'[jw[p].url].next_retry_at = 0
              /\ JWKS_CACHE'[jw[p].url].backoff_s = InitialBackoff(jcfg)]_vars

\* A forced call has fetched with success, and is about to publish, while
\* the entry holds a fresh key set and is in backoff.
C12_Witness ==
    \E p \in Callers :
        /\ jw[p].pc = "publish" /\ jw[p].force_refresh /\ jw[p].outcome # FetchFailed
        /\ JwksTruthy(JWKS_CACHE[jw[p].url].jwks)
        /\ jw[p].now < JWKS_CACHE[jw[p].url].expires_at
        /\ jw[p].now < JWKS_CACHE[jw[p].url].next_retry_at
        /\ JWKS_CACHE[jw[p].url].backoff_s > InitialBackoff(jcfg)

(***************************************************************************)
(* C13: the fallback subscription.  When the subscription PUT raises or    *)
(* is answered with a status other than 200 and RID_FALLBACK_USS_URLS      *)
(* holds n >= 1 non-empty entries, create_dss_subscription returns         *)
(* created=true with a freshly drawn subscription id and notification      *)
(* index 0, and persists exactly one record under the request UUID, with   *)
(* n service areas (one per configured URL, in order, owner "fallback")    *)
(* and is_simulated true whatever was passed.  The status is tested by an  *)
(* assert statement (line 468): under python -O the statement is not       *)
(* there, a rejection is read as a success and the call ends in the        *)
(* KeyError of line 485.                                                   *)
(***************************************************************************)
SubscriptionPutStep == dsub.pc = "put" /\ dsub'.pc = "done"

FallbackRecord(record, request_uuid, urls) ==
    /\ record.record_id = request_uuid
    /\ record.is_simulated
    /\ Len(record.service_areas) = Len(urls)
    /\ \A i \in 1..Len(urls) :
        /\ record.service_areas[i].uss_base_url = urls[i]
        /\ record.service_areas[i].owner = "fallback"

C13_FallbackSubscription ==
    [][(/\ SubscriptionPutStep
        /\ dsub'.put.kind = "raise" \/ dsub'.put.status # 200
        /\ Len(parse_fallback_uss_urls(denv.fallback)) >= 1) =>
            /\ dsub'.result.kind = "return"
            /\ dsub'.result.value.created
            /\ dsub'.result.value.dss_subscription_id > dstore.uuids
            /\ dsub'.result.value.notification_index = 0
            /\ Len(dstore'.records) = Len(dstore.records) + 1
            /\ SubSeq(dstore'.records, 1, Len(dstore.records)) = dstore.records
            /\ FallbackRecord(dstore'.records[Len(dstore'.records)], dsub.request_uuid,
                              parse_fallback_uss_urls(denv.fallback))]_vars

(***************************************************************************)
(* C14: subscriber notification failures are isolated in create_dss_isa.   *)
(* Once the DSS has answered the ISA PUT with 200, whatever happens to the *)
(* notification of one subscriber (no token for its audience, a token body *)
(* with an error field, a POST that raises, any response status), the      *)
(* token of every returned subscriber is asked for, every subscriber whose *)
(* token was obtained gets exactly one POST, the isa-{id} marker is stored *)
(* with TTL ttl_s and the call returns created=true with the service area  *)
(* and all returned subscribers.  The token request of line 343 stands     *)
(* outside the try of line 349: when it raises, or when the body has no    *)
(* access_token (line 346), the exception leaves the loop and the call.    *)
(***************************************************************************)
TokensObtained(call) ==
    Cardinality({i \in 1..Len(call.subscribers) :
                    i + 1 <= Len(call.tokens) /\ HasAccessToken(call.tokens[i + 1])})

C14_NotificationIsolation ==
    (disa.pc = "done" /\ disa.put = DssResponse(200, "ok")) =>
        /\ disa.result.kind = "return"
        /\ disa.result.value.created
        /\ disa.result.value.service_area.id = disa.new_id
        /\ disa.result.value.subscribers = disa.subscribers
        /\ Len(disa.tokens) = Len(disa.subscribers) + 1
        /\ Len(disa.posts) = TokensObtained(disa)
        /\ [id |-> disa.new_id, ttl |-> disa.ttl_s] \in dstore.markers

(***************************************************************************)
(* C15: create_dss_isa returns the empty response (created=false, no       *)
(* service area, no subscribers), stores no isa-{id} marker and sends no   *)
(* notification whenever the RID token cannot be obtained (an exception,   *)
(* or an error field in the token body), the PUT raises, or the DSS        *)
(* answers with a status other than 200; when the token fails no PUT is    *)
(* sent.  Both the error field and the status are tested by assert         *)
(* statements (lines 254 and 281): under python -O a token body with an    *)
(* error field goes on to the KeyError of line 265, and a rejection is     *)
(* read as a success and goes on to the KeyError of line 288.              *)
(***************************************************************************)
IsaTokenFailed(call) ==
    Len(call.tokens) >= 1 /\ (call.tokens[1] = "raise" \/ ErrorField(call.tokens[1]))

IsaPutFailed(call) ==
    call.puts = 1 /\ (call.put.kind = "raise" \/ call.put.status # 200)

C15_EmptyIsaResponse ==
    (disa.pc = "done" /\ (IsaTokenFailed(disa) \/ IsaPutFailed(disa))) =>
        /\ disa.result = DReturn(EmptyISAResponse)
        /\ \A m \in dstore.markers : m.id # disa.new_id
        /\ disa.posts = <<>>
        /\ IsaTokenFailed(disa) => disa.puts = 0

(***************************************************************************)
(* C16: after clear_rtree_index() every intersection query gives an empty  *)
(* list, for every query rectangle, until the next insert                  *)
(* (add_box_to_index) or rebuild (generate_*_index), whatever the index    *)
(* held before the clear.                                                  *)
(***************************************************************************)
C16_EmptyAfterClear ==
    /\ (rtree.cleared /\ rtree.op = "query") => rtree.hits = EmptyBag
    /\ rtree.cleared => rtree.idx = NewIndex

\* An index that held items has been cleared and then queried.
C16_Witness ==
    /\ rtree.cleared /\ rtree.removed >= 2
    /\ rtree.op = "query" /\ rtree.hits = EmptyBag

(***************************************************************************)
(* C17: a rebuild replaces the index.  After generate_*_index with the     *)
(* entities S, on an index in any prior state, the index holds exactly one *)
(* entry per element of S and none from before the rebuild; rebuilding     *)
(* twice with the same S gives what rebuilding once gives.  None of the    *)
(* three generate methods closes or replaces self.idx: they insert into    *)
(* the index as it stands.                                                 *)
(***************************************************************************)
C17_RebuildReplaces ==
    [][(rtree'.op = "rebuild" /\ ~rtree'.raised) =>
          /\ BagCardinality(rtree'.idx) = Len(rtree'.entities)
          /\ rtree'.idx = generate_index(rtree.kind, NewIndex, rtree'.entities).idx]_vars

(***************************************************************************)
(* C18: the cluster floors.  For every bounding box and view area the      *)
(* rectangle extend_cluster returns is at least 2*NetMinObfuscationDistanceM *)
(* wide and high, its area is at least NetMinClusterSizePercent/100 of the *)
(* view area, and it contains the bounding box given.  In the code every   *)
(* step starts again from min_x, min_y, max_x, max_y (lines 154-158 and    *)
(* 166-170): the widening is lost when the height or the area step         *)
(* follows, and a box of no area under a view of some area divides by      *)
(* zero (line 165).                                                        *)
(***************************************************************************)
C18_ClusterFloors ==
    cluster.pc = "returned" /\ cluster.fn = "extend_cluster" =>
        LET out == cluster.out
            width == geometry_length(out.x_min, out.x_max)
            height == geometry_length(out.y_min, out.y_max)
        IN  /\ out.kind = "return"
            /\ width >= 2 * NetMinObfuscationDistanceM
            /\ height >= 2 * NetMinObfuscationDistanceM
            /\ width * height * 100 >= NetMinClusterSizePercent * cluster.input.view_area_sqm
            /\ out.x_min <= cluster.input.min_x /\ cluster.input.max_x <= out.x_max
            /\ out.y_min <= cluster.input.min_y /\ cluster.input.max_y <= out.y_max

(***************************************************************************)
(* C19: the outcome classes of requires_scopes when the bypass is off.     *)
(* The handler is invoked only for a token whose signature and claims      *)
(* verified and whose scopes satisfy the policy; 403 is answered only for  *)
(* a verified token whose scopes fail the policy; a missing or one-part    *)
(* Authorization header, a token header that does not decode, an unknown   *)
(* kid and every failure of the signature or of a claim are answered 401;  *)
(* no answer of 401, 403 or 503 comes with the handler invoked.  In the    *)
(* source jwt.decode raises InvalidAlgorithmError for a token whose alg is *)
(* not RS256, lines 221-229 do not catch it, and the request ends in an    *)
(* unhandled exception in place of a 401.                                  *)
(***************************************************************************)
SignatureAndClaimsVerify(token) ==
    /\ token.kid # NoneVal
    /\ token.alg = "RS256" /\ token.signed_by = token.kid /\ token.payload_ok
    /\ token.exp = "valid" /\ token.aud = ApiIdentifier /\ token.iss # NoneVal

KeysObtained(response) == response.path = "verified" /\ response.status # 503

C19_OutcomeClasses ==
    LET token == greq.token
        response == greq.response
    IN  (~bypass_enabled(genv.BYPASS_AUTH_TOKEN_VERIFICATION, genv.IS_DEBUG)
         /\ response.path \in {"parse", "verified"}) =>
            /\ response.handler =>
                  /\ SignatureAndClaimsVerify(token)
                  /\ response.verified_with = token.kid
                  /\ ScopePolicy(greq.view, token.scope)
            /\ response.status = 403 =>
                  /\ SignatureAndClaimsVerify(token)
                  /\ response.verified_with = token.kid
                  /\ ~ScopePolicy(greq.view, token.scope)
            /\ (token.auth # "bearer" \/ ~token.header_ok) => response.status = 401
            /\ (KeysObtained(response) /\ ~SignatureAndClaimsVerify(token)) =>
                  response.status = 401
            /\ (KeysObtained(response) /\ response.verified_with = NoneVal) =>
                  response.status = 401
            /\ response.status \in {401, 403, 503} => ~response.handler

(***************************************************************************)
(* C20: the 503 of requires_scopes.  A request that reaches lines 177-193  *)
(* is answered 503 exactly when the Passport call has no cached key set to *)
(* fall back on and either the URL is in backoff or the fetch fails;       *)
(* whatever the DSS endpoint answers changes nothing to that; and with a   *)
(* stale Passport key set and a failed or suppressed refresh the request   *)
(* goes on to the lookup of the kid among the stale keys.  As the claim    *)
(* states it, a cached key set is any document fetched before, the empty   *)
(* object {} included.                                                     *)
(***************************************************************************)
PassportEntry == JWKS_CACHE["passport"]

Fresh(entry) == JwksTruthy(entry.jwks) /\ jclock < entry.expires_at

\* Without new Passport keys: the entry is not fresh and the URL is in
\* backoff or the fetch fails.
NotObtained(entry, op) ==
    ~Fresh(entry) /\ (jclock < entry.next_retry_at \/ op = FetchFailed)

\* The step of lines 177-239 for the answers op and od of the two endpoints.
VerifiedWith(op, od) ==
    LET r == VerifiedPath(greq.token, greq.view, JWKS_CACHE, jcfg, jclock, op, od) IN
    /\ greq.response.path = "keys"
    /\ greq'.response = r.response
    /\ JWKS_CACHE' = r.cache

\* The keys the non-forced DSS call of line 187 gives.
DssKeys(od) ==
    _get_jwks_cached(JWKS_CACHE, jcfg, "dss", jclock, FALSE, FALSE, od).answer.public_keys

\* The request went on to the lookup of the kid among the keys given.
LookedUpAmong(keys) ==
    /\ greq'.response.stale
    /\ IF greq.token.kid # NoneVal /\ greq.token.kid \in keys
        THEN greq'.response =
                [VerifyAndDispatch(greq.token, greq.view, greq.token.kid) EXCEPT
                    !.stale = TRUE]
        ELSE /\ greq'.response.status = 401
             /\ greq'.response.detail = "the signing key id is not present in JWKS"

C20_ServiceUnavailable_Original ==
    [][\A op \in Served("passport"), od \in Served("dss") :
        VerifiedWith(op, od) =>
            /\ greq'.response.status = 503 <=>
                  (PassportEntry.jwks = NoJwks /\ NotObtained(PassportEntry, op))
            /\ (PassportEntry.jwks # NoJwks /\ NotObtained(PassportEntry, op)) =>
                  LookedUpAmong(PassportEntry.public_keys \cup DssKeys(od))]_vars

\* C20 as amended: a cached key set is a non-empty one; a cached {} is as
\* good as none.
C20_ServiceUnavailable ==
    [][\A op \in Served("passport"), od \in Served("dss") :
        VerifiedWith(op, od) =>
            /\ greq'.response.status = 503 <=>
                  (~JwksTruthy(PassportEntry.jwks) /\ NotObtained(PassportEntry, op))
            /\ (JwksTruthy(PassportEntry.jwks) /\ NotObtained(PassportEntry, op)) =>
                  LookedUpAmong(PassportEntry.public_keys \cup DssKeys(od))]_vars

\* A request reached the handler on a Passport key that had expired in the
\* cache and could not be renewed, the DSS keys never having been obtained.
C20_Witness ==
    /\ greq.response.path = "verified" /\ greq.response.stale
    /\ greq.response.handler /\ greq.response.verified_with = "k1"
    /\ JWKS_CACHE["dss"].jwks = NoJwks
    /\ JWKS_CACHE["dss"].next_retry_at > 0

(***************************************************************************)
(* C21: the token transport of one cache miss.  With a token URL that      *)
(* starts with http(s)://local_ or http(s)://local- one GET is sent and no *)
(* POST.  Otherwise one POST is sent first; when it answers 200 with JSON  *)
(* its body is the result and no GET follows; one GET follows exactly when *)
(* the POST answered with another status or with a body that is not JSON.  *)
(* No miss sends more than one POST and one GET, nor a POST after a GET.   *)
(***************************************************************************)
\* The step of line 65 of worker w for the answers post and get.
RequestedWith(w, post, get) ==
    LET r == _request_credentials(tenv.url_is_local, post, get, TokenRequests + 1) IN
    /\ tw[w].pc = "request" /\ tw'[w].pc # "request"
    /\ tw'[w].sent = r.sent
    /\ IF r.outcome.kind = "raise"
        THEN tw'[w].result.kind = "raise"
        ELSE tw'[w].pc = "set" /\ tw'[w].credentials = r.outcome.value

AnsweredJson(response) ==
    response.kind = "http" /\ response.json \in {"credentials", "error"}

Transport(sent, post, body) ==
    IF tenv.url_is_local THEN sent = <<"GET">>
    ELSE /\ Len(sent) \in {1, 2} /\ sent[1] = "POST"
         /\ \A i \in 2..Len(sent) : sent[i] = "GET"
         /\ (post.kind = "http" /\ post.status = 200 /\ AnsweredJson(post)) =>
               /\ sent = <<"POST">>
               /\ body = try_parse_json(post, TokenRequests + 1).value
         /\ sent = <<"POST", "GET">> <=>
               (post.kind = "http" /\ (post.status # 200 \/ ~AnsweredJson(post)))

C21_TokenTransport ==
    [][\A w \in TokenWorkers, post \in TokenResponses, get \in TokenResponses :
        RequestedWith(w, post, get) => Transport(tw'[w].sent, post, tw'[w].credentials)]_vars

\* A miss under a token URL that is not local sent a POST, then a GET, and
\* the body of the GET is on its way to the store.
C21_Witness ==
    /\ ~tenv.url_is_local
    /\ tw["a"].pc = "set" /\ tw["a"].sent = <<"POST", "GET">>
    /\ tw["a"].credentials.kind = "credentials"

(***************************************************************************)
(* C22: a get_cached_credentials call with a token_type other than rid,    *)
(* scd or constraints fails with ValueError "Invalid token type", reads    *)
(* and writes nothing in the store, and sends no token request.  In the    *)
(* source line 54 reads token_suffix, which no branch of lines 47-52 has   *)
(* bound for such a token_type: the call ends in UnboundLocalError, and    *)
(* the ValueError of line 77 is never reached.                             *)
(***************************************************************************)
KnownTokenTypes == {"rid", "scd", "constraints"}

C22_InvalidTokenType ==
    [][\A w \in TokenWorkers :
        (tw[w].pc = "idle" /\ tw'[w].pc # "idle"
         /\ tw'[w].token_type \notin KnownTokenTypes) =>
            /\ tw'[w].pc = "returned"
            /\ tw'[w].result.kind = "ValueError"
            /\ tw'[w].sent = <<>>
            /\ redis' = redis /\ tlog' = tlog]_vars

(***************************************************************************)
(* C23: the ingestion status of download_geozone_source.  The result is    *)
(* "Rejected" exactly when a URL of the download, the first or a redirect  *)
(* target, did not pass validate_public_url, "Error" for every other       *)
(* failed download, and "Ready" exactly when the download succeeded and    *)
(* the object was handed to the geozone writer, once; the writer is not    *)
(* invoked after a failed download; the status is written to the store     *)
(* only over a key that exists.  In the source a ValueError raised by      *)
(* validate_public_url (a port that is not a number, line 37) or by        *)
(* urljoin (line 54), and any exception of the GET that is not a           *)
(* RequestException, is caught neither in _fetch_geozone_json nor at       *)
(* lines 104-108: the task ends without a status.                          *)
(***************************************************************************)
C23_IngestionStatus ==
    (fetch.fn = "download_geozone_source" /\ fetch.reported) =>
        /\ fetch.status = "Rejected" <=> fetch.rejected
        /\ (fetch.result.kind # "dict" /\ ~fetch.rejected) => fetch.status = "Error"
        /\ fetch.status = "Ready" <=> (fetch.result.kind = "dict" /\ fetch.writer = 1)
        /\ fetch.result.kind # "dict" => fetch.writer = 0
        /\ fetch.writer \in {0, 1}
        /\ fetch.stored = IF fetch.key_exists THEN fetch.status ELSE NoneVal

(***************************************************************************)
(* C24: the validation of create_dss_isa and create_dss_subscription does  *)
(* not rest on assert statements: with assertions enabled or disabled      *)
(* (python -O) alike, an empty DSS_SELF_AUDIENCE ends the call with the    *)
(* empty response before any token is asked for, a token body with an      *)
(* error field ends it with the empty response before any PUT, and a DSS   *)
(* answer other than 200 gives created=false (create_dss_isa) or the       *)
(* fallback (create_dss_subscription) and is never read as a success.      *)
(* The source tests all three with assert (lines 240, 254, 281, 390, 404,  *)
(* 468), which python -O compiles away.                                    *)
(***************************************************************************)
EmptyAudienceRefused(call, empty) ==
    denv.audience = "" => (call.result = DReturn(empty) /\ call.tokens = <<>>)

TokenErrorRefused(call, empty) ==
    (Len(call.tokens) >= 1 /\ ErrorField(call.tokens[1])) =>
        (call.result = DReturn(empty) /\ call.puts = 0)

Rejection(call) == call.puts = 1 /\ call.put.kind = "http" /\ call.put.status # 200

C24_NoAssertValidation ==
    /\ disa.pc = "done" =>
        /\ EmptyAudienceRefused(disa, EmptyISAResponse)
        /\ TokenErrorRefused(disa, EmptyISAResponse)
        /\ Rejection(disa) => disa.result = DReturn(EmptyISAResponse)
    /\ dsub.pc = "done" =>
        /\ EmptyAudienceRefused(dsub, EmptySubscriptionResponse)
        /\ TokenErrorRefused(dsub, EmptySubscriptionResponse)
        /\ Rejection(dsub) => (dsub.fallback /\ dsub.result.kind = "return")

(***************************************************************************)
(* C25: acceptance on the bypass path (BYPASS_AUTH_TOKEN_VERIFICATION and  *)
(* IS_DEBUG both truthy).  The handler is invoked exactly when the token   *)
(* decodes without a check of its signature, every required scope is in    *)
(* its scope claim, its iss is not empty and is "dummy" or an http(s) URL  *)
(* with a host, and its aud is not empty.  A decoded token that lacks a    *)
(* required scope is answered 403, every other refusal is a 401, and a     *)
(* refused request does not reach the handler.                             *)
(***************************************************************************)
Empty(claim) == claim = NoneVal \/ claim = ""

BypassAccepts(token, view) ==
    /\ token.payload_ok
    /\ view.required_scopes \subseteq token.scope
    /\ ~Empty(token.iss)
    /\ token.iss = "dummy"
         \/ token.iss \in {"https://passport.example/", "https://evil.example"}
    /\ ~Empty(token.aud)

C25_BypassAcceptance ==
    LET token == greq.token
        response == greq.response
    IN  response.path = "bypass" =>
            /\ response.handler <=> BypassAccepts(token, greq.view)
            /\ response.handler => response.status = 200
            /\ ~response.handler =>
                  response.status =
                      IF token.payload_ok /\ ~(greq.view.required_scopes \subseteq token.scope)
                          THEN 403 ELSE 401

\* A token whose iss is not an http(s) URL was refused with 401 on the
\* bypass path, though its scopes and its aud would do.
C25_Witness ==
    /\ greq.response.path = "bypass"
    /\ greq.token.iss = "mailto:ops@passport.example"
    /\ greq.view.required_scopes \subseteq greq.token.scope
    /\ greq.response.status = 401 /\ ~greq.response.handler
    /\ greq.response.detail = "Issuer (iss) claim is not a valid URL"

(***************************************************************************)
(* C26: generate_cluster_details returns a list of exactly one             *)
(* ClusterDetail.  Its number_of_flights is the number of flights given,   *)
(* its area_sqm is the area of the view box whatever the enlargement of    *)
(* the rectangle was, and its two corners are (lat = y_min, lng = x_min)   *)
(* and (lat = y_max, lng = x_max) of the rectangle that extend_cluster     *)
(* returns for the smallest box around the two view corners and the        *)
(* flights' points (lat, lng).                                             *)
(***************************************************************************)
PositionsOf(rid_flights, view_box) ==
    {<<view_box.bounds[1], view_box.bounds[2]>>, <<view_box.bounds[3], view_box.bounds[4]>>}
        \cup {<<rid_flights[i].most_recent_position.lat,
                rid_flights[i].most_recent_position.lng>> : i \in 1..Len(rid_flights)}

Least(S) == CHOOSE m \in S : \A n \in S : m <= n

Greatest(S) == CHOOSE m \in S : \A n \in S : m >= n

EnlargedRectangle(rid_flights, view_box) ==
    LET xs == {p[1] : p \in PositionsOf(rid_flights, view_box)}
        ys == {p[2] : p \in PositionsOf(rid_flights, view_box)}
    IN  extend_cluster(compute_polygon_area(view_box),
                       Least(xs), Least(ys), Greatest(xs), Greatest(ys))

DetailsReturned == cluster.pc = "returned" /\ cluster.fn = "generate_cluster_details"

C26_ClusterDetail ==
    DetailsReturned =>
        LET enlarged == EnlargedRectangle(cluster.rid_flights, cluster.view_box)
        IN  /\ cluster.out.kind = "return"
            /\ Len(cluster.out.cluster_details) = 1
            /\ cluster.out.cluster_details[1].number_of_flights = Len(cluster.rid_flights)
            /\ cluster.out.cluster_details[1].area_sqm = compute_polygon_area(cluster.view_box)
            /\ cluster.out.cluster_details[1].corners
                   = <<[lat |-> enlarged.y_min, lng |-> enlarged.x_min],
                       [lat |-> enlarged.y_max, lng |-> enlarged.x_max]>>

C26_Witness ==
    /\ DetailsReturned
    /\ Len(cluster.rid_flights) = 2
    /\ cluster.out.kind = "return"
    /\ LET d == cluster.out.cluster_details[1]
           width == geometry_length(d.corners[1].lng, d.corners[2].lng)
           height == geometry_length(d.corners[1].lat, d.corners[2].lat)
       IN  /\ d.corners[1].lat # d.corners[1].lng
           /\ width * height > compute_polygon_area(cluster.view_box)
           /\ d.area_sqm > 0
           /\ d.corners[1].lat < Least({p[2] : p \in PositionsOf(cluster.rid_flights,
                                                                  cluster.view_box)})

(***************************************************************************)
(* C27.  The bounds of the backoff.  In every reachable state of the JWKS  *)
(* cache, under every configuration and every interleaving of concurrent   *)
(* calls, an entry exists for every URL a call has looked up, and each     *)
(* entry's backoff_s lies between a least and a greatest value.  As first  *)
(* stated these are the configured initial and maximum backoff; in the     *)
(* statement that holds the least value is max(configured initial, floor)  *)
(* (lines 60 and 93) and the greatest is the larger of the configured      *)
(* maximum and that least value (line 104).                                *)
(***************************************************************************)
LookedUp(p) == jw[p].pc \in {"fetch", "publish"}

EntryExistsForRequested ==
    /\ \A p \in Callers : LookedUp(p) => JWKS_CACHE[jw[p].url] # NoEntry
    /\ \A p \in Callers :
         jret[p].answer.kind # "none" => JWKS_CACHE[jret[p].url] # NoEntry

BackoffWithin(least, greatest) ==
    \A u \in JwksUrls :
        JWKS_CACHE[u] # NoEntry =>
            least <= JWKS_CACHE[u].backoff_s /\ JWKS_CACHE[u].backoff_s <= greatest

C27_BackoffBounds_Original ==
    EntryExistsForRequested /\ BackoffWithin(jcfg.initial, jcfg.max)

C27_BackoffBounds ==
    /\ EntryExistsForRequested
    /\ BackoffWithin(InitialBackoff(jcfg), Max(jcfg.max, InitialBackoff(jcfg)))

\* Two callers have a failure each to publish for the same URL while the
\* entry's backoff already stands at its greatest value, which is above the
\* least one.
C27_Witness ==
    /\ \A p \in Callers :
         jw[p].pc = "publish" /\ jw[p].url = "passport" /\ jw[p].outcome = FetchFailed
    /\ JWKS_CACHE["passport"].backoff_s = Max(jcfg.max, InitialBackoff(jcfg))
    /\ JWKS_CACHE["passport"].backoff_s > InitialBackoff(jcfg)

(***************************************************************************)
(* C28.  Within a failure streak of one JWKS URL (the failures published   *)
(* since the last success, or since the entry was made), each failure      *)
(* publication leaves next_retry_at and backoff_s no lower than the        *)
(* failure publication before it left them, also when concurrent callers   *)
(* publish in another order than they read the clock and when backoff_s    *)
(* has reached its maximum.  In the code the publisher reads the clock     *)
(* (line 97) before it takes the lock (line 98): a caller that read the    *)
(* clock earlier and publishes later sets next_retry_at to its own earlier *)
(* time plus the backoff, which is lower than the value it replaces as     *)
(* soon as the backoff no longer doubles, or the clock readings are        *)
(* further apart than the backoff.                                         *)
(***************************************************************************)
FailurePublication(p) == PublishStep(p) /\ jw[p].outcome = FetchFailed

\* A success and the making of the entry leave next_retry_at at 0; a
\* failure leaves it above 0.
InFailureStreak(entry) == entry.next_retry_at > 0

C28_MonotoneStreak ==
    [][\A p \in Callers :
        FailurePublication(p) /\ InFailureStreak(JWKS_CACHE[jw[p].url]) =>
            /\ JWKS_CACHE'[jw[p].url].next_retry_at >= JWKS_CACHE[jw[p].url].next_retry_at
            /\ JWKS_CACHE'[jw[p].url].backoff_s >= JWKS_CACHE[jw[p].url].backoff_s]_vars

(***************************************************************************)
(* C29.  The discipline of _JWKS_CACHE_LOCK.  A caller holds the lock      *)
(* exactly while it is inside one of the two blocks under the lock: not    *)
(* while it waits, not while its fetch is in flight, not after its call    *)
(* has returned or raised.  Every step that changes the cache map or an    *)
(* entry, or answers a call from an entry, is taken by the holder of the   *)
(* lock.  A caller that waits for the lock can take it, or else the holder *)
(* can leave its block without waiting for anything: a fetch that hangs    *)
(* for one URL blocks no call for any URL, and no execution deadlocks on   *)
(* the lock.                                                               *)
(***************************************************************************)
UnderLock == {"check_locked", "publish_locked"}

WaitsForLock(p) == jw[p].pc \in {"check", "publish"}

HeldExactlyInBlocks ==
    /\ _JWKS_CACHE_LOCK \in Callers \cup {Unlocked}
    /\ \A p \in Callers : _JWKS_CACHE_LOCK = p <=> jw[p].pc \in UnderLock

AccessesCache(p) ==
    /\ jw'[p] # jw[p]
    /\ \/ JWKS_CACHE' # JWKS_CACHE
       \/ jret'[p] # jret[p] /\ jret'[p].answer.kind # "none"

NeverBlocked ==
    \A q \in Callers :
        WaitsForLock(q) =>
            \/ ENABLED JwksAcquire(q)
            \/ \E h \in Callers :
                 /\ _JWKS_CACHE_LOCK = h
                 /\ ENABLED (JwksCheckLocked(h) \/ JwksPublishLocked(h))

C29_LockDiscipline ==
    [][/\ HeldExactlyInBlocks
       /\ HeldExactlyInBlocks'
       /\ NeverBlocked
       /\ \A p \in Callers : AccessesCache(p) => _JWKS_CACHE_LOCK = p]_vars

\* One caller's fetch for the Passport URL is in flight while the other
\* caller holds the lock and is about to read the DSS entry, which has keys.
C29_Witness ==
    /\ jw["w1"].pc = "fetch" /\ jw["w1"].url = "passport"
    /\ jw["w2"].pc = "check_locked" /\ jw["w2"].url = "dss"
    /\ _JWKS_CACHE_LOCK = "w2"
    /\ JwksTruthy(JWKS_CACHE["dss"].jwks)

(***************************************************************************)
(* C30.  Token record validity.  The created_at written with a record is   *)
(* the time its credentials were fetched (a time from the start of the     *)
(* call that fetched them to the write); a call that finds a record whose  *)
(* created_at can be parsed returns it if and only if the time of the call *)
(* is earlier than created_at + 58 min, also on a getter made before the   *)
(* call; the write is one set followed by one expire of 58 minutes.  In    *)
(* the code created_at is self.now, the time the getter was made (lines 44 *)
(* and 82), and line 62 compares self.now, not the time of the call.       *)
(***************************************************************************)
SetStep(w) == tw[w].pc = "set" /\ tw'[w].pc = "expire"

ExpireStep(w) == tw[w].pc = "expire" /\ tw'[w].pc = "returned"

ReadStep(w) ==
    /\ tw[w].pc = "idle" /\ tw'[w].pc # "idle"
    /\ tw'[w].result.kind # "UnboundLocalError"

Parsed(created_at) == strptime(created_at).value

C30_RecordValidity ==
    [][\A w \in TokenWorkers :
        /\ SetStep(w) =>
             /\ redis'[tw[w].key].created_at.m >= Instants[tw[w].called_at].m
             /\ ~Before(Now, Parsed(redis'[tw[w].key].created_at))
        /\ ExpireStep(w) =>
             /\ redis'[tw[w].key].ttl
             /\ redis'[tw[w].key].expire_at = PlusMinutes(Now, TokenLifetimeMin)
        /\ (/\ ReadStep(w)
            /\ redis_get(redis, tw'[w].key, Now).present
            /\ strptime(redis[tw'[w].key].created_at).kind = "datetime") =>
               (tw'[w].result.hit <=>
                   Before(Now, PlusMinutes(Parsed(redis[tw'[w].key].created_at),
                                           TokenLifetimeMin)))]_vars

(***************************************************************************)
(* C31.  Concurrent token misses.  A worker whose call missed leaves its   *)
(* miss only by a token request of its own.  The record of a key changes   *)
(* only in a set step, which writes the credentials and the created_at of  *)
(* the one worker that takes the step (never those of two workers mixed):  *)
(* the key holds the record of the worker whose set came last.  No step    *)
(* of a call changes the record of another key than the call's own.        *)
(***************************************************************************)
RecordOf(store, key) ==
    [present |-> store[key].present, credentials |-> store[key].credentials,
     created_at |-> store[key].created_at]

WrittenBy(w) ==
    [present |-> TRUE, credentials |-> tw[w].credentials,
     created_at |-> isoformat(getter[w].now)]

OwnRequest(w) ==
    (tw[w].pc = "request" /\ tw'[w].pc # "request") =>
        tlog'[tw[w].key].requests = tlog[tw[w].key].requests + 1

C31_ConcurrentMisses ==
    [][\A w \in TokenWorkers :
        /\ OwnRequest(w)
        /\ SetStep(w) =>
             /\ RecordOf(redis', tw[w].key) = WrittenBy(w)
             /\ \A k \in CacheKeys \ {tw[w].key} : redis'[k] = redis[k]
        /\ (tw'[w] # tw[w] /\ ~SetStep(w)) =>
             \A k \in CacheKeys :
                 \/ RecordOf(redis', k) = RecordOf(redis, k)
                 \/ k = tw[w].key /\ ~redis'[k].present]_vars

\* Both workers missed on the same key and both have set it: the key holds
\* what worker b wrote, which differs from what worker a wrote in both
\* fields.
C31_Witness ==
    /\ tw["a"].pc = "expire" /\ tw["b"].pc = "expire"
    /\ tw["a"].key = tw["b"].key
    /\ RecordOf(redis, tw["b"].key) = WrittenBy("b")
    /\ WrittenBy("a").credentials # WrittenBy("b").credentials
    /\ WrittenBy("a").created_at # WrittenBy("b").created_at

(***************************************************************************)
(* C32.  Only usable credentials are cached.  The call goes on to write a  *)
(* record exactly when the last token request it sent was answered 200     *)
(* with a JSON body; after any other answer (another status, with or       *)
(* without a JSON body, or an exception) nothing is written.  In the code  *)
(* the status of the last answer is only logged (lines 119-122 and         *)
(* 150-157): its JSON body is returned whatever the status and line 66     *)
(* stores it for 58 minutes.                                               *)
(***************************************************************************)
FinalAnswer(sent, post, get) == IF sent = <<"POST">> THEN post ELSE get

Usable(response) ==
    response.kind = "http" /\ response.status = 200 /\ AnsweredJson(response)

C32_OnlyUsableCached ==
    [][\A w \in TokenWorkers, post \in TokenResponses, get \in TokenResponses :
        RequestedWith(w, post, get) =>
            (tw'[w].pc = "set" <=> Usable(FinalAnswer(tw'[w].sent, post, get)))]_vars

(***************************************************************************)
(* C33.  Bounded redirects and termination.  fetch_json_url and            *)
(* _fetch_geozone_json send at most max_redirects + 1 GETs, at most one    *)
(* for each hop, and follow at most max_redirects redirects; a call in     *)
(* its loop ends; and a call whose GET number max_redirects + 1 is         *)
(* answered with one more redirect ends with None (fetch_json_url) or      *)
(* GeoZoneDownloadError too_many_redirects (_fetch_geozone_json).  In      *)
(* _fetch_geozone_json line 54 joins the Location before the loop runs     *)
(* out (line 95): a last redirect with a malformed Location leaves the     *)
(* call with ValueError.                                                   *)
(***************************************************************************)
InLoop == fetch.pc = "loop"

RedirectBudget ==
    fetch.pc # "idle" =>
        /\ Len(gets) <= fetch.settings.max_redirects + 1
        /\ Len(gets) <= fetch.hop + 1
        /\ fetch.pc = "loop" => fetch.hop <= fetch.settings.max_redirects

OneMoreRedirect(response) ==
    /\ response.kind = "http" /\ response.status \in RedirectStatuses
    /\ response.location.kind \notin {"absent", "empty"}

\* The step in which the GET of the present pass is answered with response.
AnsweredWith(response) ==
    /\ InLoop /\ Len(gets') = Len(gets) + 1
    /\ fetch' = IF fetch.fn = "fetch_json_url"
                    THEN fetch_json_url_Response(fetch, response, dns)
                    ELSE _fetch_geozone_json_Response(
                             [fetch EXCEPT !.vetted_url = fetch.current_url], response)

BudgetExhausted(response) ==
    /\ AnsweredWith(response) /\ OneMoreRedirect(response)
    /\ Len(gets') = fetch.settings.max_redirects + 1

TooManyRedirects(f) ==
    /\ f.pc = "done"
    /\ IF f.fn = "fetch_json_url" THEN f.result.kind = "None"
       ELSE f.result = GeoError("too_many_redirects")

C33_BoundedRedirects ==
    /\ []RedirectBudget
    /\ [][\A response \in Responses :
            BudgetExhausted(response) => TooManyRedirects(fetch')]_vars
    /\ (InLoop ~> ~InLoop)

(***************************************************************************)
(* C34.  Reason precedence in validate_public_url.  For a URL that parses  *)
(* and violates one or more rules, the call returns ok=false with the      *)
(* reason of the first violated rule in the order unsupported_scheme,      *)
(* https_required, http_not_allowed, missing_host, userinfo_not_allowed,   *)
(* localhost_not_allowed, ip_not_allowed, dns_failed,                      *)
(* resolved_ip_not_allowed; an http URL is not refused for its scheme when *)
(* allow_http is true; and when a rule before dns_failed is violated the   *)
(* resolver has no part in the answer.  In the code the port is read       *)
(* (line 77) between the localhost rule and the IP rule and raises         *)
(* ValueError for a port that is not a number or out of range, and the     *)
(* userinfo rule (line 67) stands before the missing_host rule of line 71. *)
(***************************************************************************)
RuleOrder ==
    <<"unsupported_scheme", "https_required", "http_not_allowed", "missing_host",
      "userinfo_not_allowed", "localhost_not_allowed", "ip_not_allowed", "dns_failed",
      "resolved_ip_not_allowed">>

Resolvable(host) == host \in Ips \cup Names

Violates(rule, url, allow_http, require_https, resolver) ==
    CASE rule = "unsupported_scheme" -> url.scheme \notin {"http", "https"}
      [] rule = "https_required" -> require_https /\ url.scheme # "https" /\ ~allow_http
      [] rule = "http_not_allowed" -> url.scheme = "http" /\ ~allow_http
      [] rule = "missing_host" -> url.host = NoneVal
      [] rule = "userinfo_not_allowed" -> Truthy(url.username) \/ Truthy(url.password)
      [] rule = "localhost_not_allowed" -> url.host = "localhost"
      [] rule = "ip_not_allowed" -> _looks_like_ip(url.host) /\ _is_disallowed_ip(url.host)
      [] rule = "dns_failed" ->
            /\ Resolvable(url.host)
            /\ LET answer == _resolved_ips(url.host, resolver)
               IN  ~answer.ok \/ answer.ips = {}
      [] rule = "resolved_ip_not_allowed" ->
            /\ Resolvable(url.host)
            /\ \E ip \in _resolved_ips(url.host, resolver).ips : _is_disallowed_ip(ip)

ViolatedRules(url, allow_http, require_https, resolver) ==
    {i \in 1..Len(RuleOrder) :
        Violates(RuleOrder[i], url, allow_http, require_https, resolver)}

FirstViolated(url, allow_http, require_https, resolver) ==
    LET violated == ViolatedRules(url, allow_http, require_https, resolver)
    IN  RuleOrder[CHOOSE i \in violated : \A j \in violated : i <= j]

C34_ReasonPrecedence ==
    (vcall.done /\ vcall.url.parse = "ok") =>
        LET url == vcall.url
            violated == ViolatedRules(url, vcall.allow_http, vcall.require_https, dns)
        IN  /\ violated # {} =>
                vcall.result = Return(FALSE, FirstViolated(url, vcall.allow_http,
                                                           vcall.require_https, dns))
            /\ (url.scheme = "http" /\ vcall.allow_http) =>
                vcall.result.reason \notin {"https_required", "http_not_allowed"}
            /\ (\E i \in violated : i < 8) =>
                \A resolver \in Resolvers :
                    validate_public_url(url, vcall.allow_http, vcall.require_https,
                                        resolver) = vcall.result

(***************************************************************************)
(* C35.  create_dss_subscription returns created=true if and only if       *)
(* exactly one subscription record was persisted during the call, and a    *)
(* call that does not return created=true persists none; at most one PUT   *)
(* is sent per call; a token that cannot be obtained or carries no         *)
(* access_token leads to no PUT and no fallback.  A call writes records in *)
(* one step only (the one that ends it), so the records of the call are    *)
(* those of that step.                                                     *)
(***************************************************************************)
SubscriptionCallStep == dsub' # dsub /\ dsub'.pc # "idle"

PersistedInStep == Len(dstore'.records) - Len(dstore.records)

ReturnsCreated(call) ==
    call.pc = "done" /\ call.result.kind = "return" /\ call.result.value.created

TokenFailure(call) == call.tokens # <<>> /\ ~HasAccessToken(call.tokens[1])

C35_CreatedIffPersisted ==
    [][SubscriptionCallStep =>
        /\ PersistedInStep = (IF ReturnsCreated(dsub') THEN 1 ELSE 0)
        /\ SubSeq(dstore'.records, 1, Len(dstore.records)) = dstore.records
        /\ dsub'.puts <= 1
        /\ TokenFailure(dsub') => (dsub'.puts = 0 /\ ~dsub'.fallback)]_vars

\* A call whose PUT was refused has returned created=true from the
\* fallback, with its one synthesized record in the store.
C35_Witness ==
    /\ ReturnsCreated(dsub) /\ dsub.fallback /\ dsub.puts = 1
    /\ Len(dstore.records) = 1
    /\ dstore.records[1].owner = "fallback"

\* Deletes of the subscriptions that create_dss_subscription made, by DSS
\* answer or by fallback.
InitDssDelete ==
    /\ NetIdle /\ JwksIdle /\ GateIdle /\ TokenIdle /\ RtreeIdle /\ ClusterIdle
    /\ denv \in [assertions : BOOLEAN, audience : {"000"},
                 fallback : {<<>>, <<"https://uss1.example">>}]
    /\ NoDssCalls

NextDssDelete ==
    \/ create_dss_subscription_Enter
    \/ create_dss_subscription_Put
    \/ DssReturn
    \/ delete_dss_subscription_Call
    \/ PeerReturn

SpecDssDelete == InitDssDelete /\ [][NextDssDelete]_vars

\* Polls of the peers, with and without python -O.
InitDssPoll ==
    /\ NetIdle /\ JwksIdle /\ GateIdle /\ TokenIdle /\ RtreeIdle /\ ClusterIdle
    /\ denv \in [assertions : BOOLEAN, audience : {"000"}, fallback : {<<>>}]
    /\ NoDssCalls

NextDssPoll ==
    \/ query_uss_for_rid_Enter
    \/ query_uss_for_rid_Get
    \/ query_uss_for_rid_Flight
    \/ PeerReturn

SpecDssPoll == InitDssPoll /\ [][NextDssPoll]_vars

(***************************************************************************)
(* C36.  delete_dss_subscription returns true if and only if the DSS       *)
(* answered the DELETE with 200 or 204; the local record with that id is   *)
(* removed in that case and only then (and the call returns true also when *)
(* there is no such record); on every failure (the token cannot be         *)
(* obtained or has no access_token, the DELETE raises, any other status)   *)
(* the call returns false and the records stay as they were.  In the code  *)
(* a token body without access_token ends the call with KeyError at line   *)
(* 593.                                                                    *)
(***************************************************************************)
DeleteStep(subscription_id, token, dss_r) ==
    /\ dpeer.pc = "idle"
    /\ dpeer' = PeerEnded([IdlePeerCall EXCEPT !.fn = "delete_dss_subscription",
                               !.subscription_id = subscription_id],
                          dpeer'.result)
    /\ LET ended == delete_dss_subscription(dstore, subscription_id, token, dss_r)
       IN  dpeer'.result = ended.result /\ dstore' = ended.store

DeleteAnswered(token, dss_r) ==
    /\ token = "credentials"
    /\ dss_r.kind = "http" /\ dss_r.status \in {200, 204}

RecordsWithout(subscription_id) ==
    SelectSeq(dstore.records, LAMBDA r : r.subscription_id # subscription_id)

DeleteOutcomeAsClaimed(subscription_id, token, dss_r) ==
    IF DeleteAnswered(token, dss_r)
    THEN /\ dpeer'.result = PReturn(TRUE)
         /\ dstore'.records = RecordsWithout(subscription_id)
    ELSE /\ dpeer'.result = PReturn(FALSE)
         /\ dstore'.records = dstore.records

C36_DeleteSubscription ==
    [][\A subscription_id \in 1..uuid4(dstore), token \in TokenOutcomes,
          dss_r \in DeleteOutcomes :
            DeleteStep(subscription_id, token, dss_r) =>
                DeleteOutcomeAsClaimed(subscription_id, token, dss_r)]_vars

(***************************************************************************)
(* C37.  Peer polling covers every service area.  A query_uss_for_rid call *)
(* that has ended has sent exactly one flights GET per service area of the *)
(* record, in record order; a token that could not be obtained or is empty *)
(* leads to a GET without Authorization header, not to a skipped peer; and *)
(* a non-200 answer, a transport exception or a malformed flight entry at  *)
(* one peer does not keep the call from the remaining service areas.  In   *)
(* the code requests.get (line 706) stands in no try, and neither does the *)
(* loop over the flights, so an exception there ends the whole call.       *)
(***************************************************************************)
PollEnded == dpeer.fn = "query_uss_for_rid" /\ dpeer.pc = "done"

UrlsAsked == [k \in 1..Len(dpeer.gets) |-> dpeer.gets[k].url]

UrlsOfRecord == [k \in 1..Len(dpeer.service_areas) |-> dpeer.service_areas[k].uss_base_url]

EveryAreaAsked == PollEnded => UrlsAsked = UrlsOfRecord

GetStep(token, flights_request, n) ==
    /\ dpeer.pc = "area"
    /\ dpeer' = flights_request_sent(dpeer, token, flights_request, n)

AskedWithoutSkipping(token) ==
    /\ Len(dpeer'.gets) = Len(dpeer.gets) + 1
    /\ dpeer'.gets[Len(dpeer'.gets)] =
           FlightsGet(dpeer.service_areas[dpeer.i].uss_base_url, token = "credentials")

C37_EveryAreaPolled ==
    /\ []EveryAreaAsked
    /\ [][\A token \in TokenOutcomes, flights_request \in PeerOutcomes, n \in 0..MaxFlights :
            GetStep(token, flights_request, n) => AskedWithoutSkipping(token)]_vars

(***************************************************************************)
(* C38.  Observation emission in query_uss_for_rid.  For each flight of a  *)
(* peer's answer exactly one observation (traffic_source 11, source_type   *)
(* 1, session_id the subscription id) is persisted when the flight has a   *)
(* current_state whose position carries lat, lng and alt, and none         *)
(* otherwise; a flight without current_state or without one of lat, lng,   *)
(* alt is skipped, and the flights after it in the same answer are still   *)
(* processed.  In the code the skip of a flight without current_state is   *)
(* an assert, and the log line of the skip for a missing coordinate        *)
(* formats the flight with a key "url" that a flight entry does not have.  *)
(***************************************************************************)
FlightStep == dpeer.pc = "flight" /\ dpeer' # dpeer

HasPosition(flight) ==
    "current_state" \in flight.keys /\ {"lat", "lng", "alt"} \subseteq flight.position

ObservationOf(flight) ==
    [session_id |-> dpeer.subscription_id, icao_address |-> flight.id,
     traffic_source |-> 11, source_type |-> 1,
     lat_dd |-> "lat", lon_dd |-> "lng", altitude_mm |-> "alt"]

EmittedExactly(flight) ==
    dtables'.observations =
        IF HasPosition(flight)
        THEN dtables.observations (+) SetToBag({ObservationOf(flight)})
        ELSE dtables.observations

DetailsAnswered == dpeer'.result.exc # "RequestException"

SkippedAndOn(flight) ==
    (~HasPosition(flight) /\ dpeer.j < dpeer.n) =>
        dpeer'.pc = "flight" /\ dpeer'.j = dpeer.j + 1

C38_ObservationEmission ==
    [][(FlightStep /\ "id" \in dpeer'.flight.keys /\ DetailsAnswered) =>
          /\ EmittedExactly(dpeer'.flight)
          /\ SkippedAndOn(dpeer'.flight)]_vars

(***************************************************************************)
(* C39.  Flight details are fetched at most once.  For each flight of a    *)
(* peer's answer the details GET is sent if and only if no detail is       *)
(* stored for the flight's id; after a 200 answer the detail is stored,    *)
(* and stays stored, so that later polls returning the flight send no      *)
(* details GET; after any other status nothing is stored, so that the next *)
(* poll asks again.  In the code a flight entry that ends the loop with an *)
(* exception leaves the flights after it without their details GET, and a  *)
(* 200 answer without a details member stores nothing.                     *)
(***************************************************************************)
DetailsStep(response) ==
    /\ FlightStep
    /\ "id" \in dpeer'.flight.keys
    /\ LET turn == process_flight(dtables, denv, dpeer.subscription_id, dpeer'.flight,
                                  response)
       IN  /\ dtables' = turn.tables
           /\ dpeer'.sent = turn.sent
           /\ (dpeer'.result.kind = "raise") = (turn.result.kind = "raise")
           /\ turn.result.kind = "raise" => dpeer'.result = turn.result

DetailStored(tables, flight_id) == flight_id \in tables.details

AskedIffMissing ==
    dpeer'.sent = ~DetailStored(dtables, dpeer'.flight.id)

StoredAfter(response) ==
    IF dpeer'.sent /\ response.kind = "http" /\ response.status = 200
    THEN DetailStored(dtables', dpeer'.flight.id)
    ELSE dtables'.details = dtables.details

NextFlightHasItsTurn == dpeer.j < dpeer.n => dpeer'.pc = "flight"

C39_DetailsOnce ==
    /\ [][dtables.details \subseteq dtables'.details]_vars
    /\ [][FlightStep => NextFlightHasItsTurn]_vars
    /\ [][\A response \in PeerOutcomes :
            DetailsStep(response) => (AskedIffMissing /\ StoredAfter(response))]_vars

(***************************************************************************)
(* C40.  JWKS recovery.  A call without force_refresh whose time is at or  *)
(* after next_retry_at, on an entry without a fresh key set (jwks empty or *)
(* the call's time at or after expires_at), goes to the network.  A failed *)
(* fetch sets next_retry_at no later than the time of the failure plus the *)
(* back-off bound, so that a call made that long after the last failure    *)
(* fetches.  And once the endpoint answers again, an entry with missing or *)
(* stale keys does not stay so: the keys are published anew.  As stated    *)
(* the bound is backoff_max; in the code it is                             *)
(* max(backoff_max, max(backoff_initial, 0.1)).                            *)
(***************************************************************************)
RecoveryUrl == "passport"

CheckEnds(p) == jw[p].pc = "check" /\ jw'[p].pc # "check"

DueWithoutFreshKeys(p) ==
    LET entry == JWKS_CACHE'[jw[p].url]
    IN  /\ ~jw[p].force_refresh
        /\ jw[p].now >= entry.next_retry_at
        /\ (~JwksTruthy(entry.jwks) \/ jw[p].now >= entry.expires_at)

DueCallsFetch ==
    [][\A p \in Callers :
        (CheckEnds(p) /\ DueWithoutFreshKeys(p)) => jw'[p].pc = "fetch"]_vars

FailurePublished(p) ==
    jw[p].pc = "publish" /\ jw'[p].pc = "idle" /\ jw[p].outcome = FetchFailed

RetryWithin(bound) ==
    \A p \in Callers :
        FailurePublished(p) =>
            JWKS_CACHE'[jw[p].url].next_retry_at <= jw[p].now + bound

\* Fresh by the clock, or published at the present time (all a TTL of 0
\* or less allows).
KeysInDate ==
    LET entry == JWKS_CACHE[RecoveryUrl]
    IN  /\ JwksTruthy(entry.jwks)
        /\ \/ jclock < entry.expires_at
           \/ jclock = entry.expires_at - Max(jcfg.ttl, 0)

NeverStuck == (~KeysInDate) ~> KeysInDate

C40_JwksRecovery_Original ==
    /\ DueCallsFetch
    /\ [][RetryWithin(jcfg.max)]_vars
    /\ NeverStuck

C40_JwksRecovery ==
    /\ DueCallsFetch
    /\ [][RetryWithin(Max(jcfg.max, InitialBackoff(jcfg)))]_vars
    /\ NeverStuck

\* After a failed fetch that closed the back-off window, the keys the
\* endpoint serves again are in the entry and fresh.
C40_Witness ==
    LET entry == JWKS_CACHE[RecoveryUrl]
    IN  /\ entry.jwks = RotatedKeys
        /\ entry.next_retry_at = 0
        /\ jclock < entry.expires_at
        /\ entry.backoff_s = InitialBackoff(jcfg)
        /\ \E p \in Callers :
            /\ jret[p].answer.kind = "JwksFetchError"
            /\ jret[p].answer.fetched

====
